---- MODULE Spec2Model ----
(***************************************************************************)
(* A model of the eitbhub catalog store (src/src/database.py), its JSON    *)
(* exporter (src/src/exporter.py) and the date backfill migration          *)
(* (src/migrate_populate_dates.py).                                        *)
(*                                                                         *)
(* Values.  Every Python / JSON / SQL value is a tagged record, so that    *)
(* values of different kinds can be compared:                              *)
(*   JNull            None / JSON null / SQL NULL                          *)
(*   JStr(s)          a str / TEXT that is not itself JSON text            *)
(*   JNum(n)          an int / INTEGER                                     *)
(*   JBool(b)         a bool                                               *)
(*   JArr(seq)        a list                                               *)
(*   JObj(f)          a dict, f a function from key strings to values      *)
(*   JText(v)         a str / TEXT holding the JSON serialisation of v     *)
(*   JBlob            a bytes object / BLOB                                *)
(***************************************************************************)
EXTENDS Integers, Sequences, FiniteSets, TLC

VARIABLES
    content,          \* table content: the rows, in rowid order
    history,          \* table check_history: the rows, in rowid order
    contentSeq,       \* sqlite_sequence entry of table content (AUTOINCREMENT)
    lastInsertRowid,  \* the connection's last_insert_rowid()
    now,              \* the clock; one tick per operation
    last,             \* the last operation: its name, arguments and result
    upserted,         \* history variable: the slugs upserted so far
    ex,               \* a call of a reader (a JSONExporter helper, get_statistics):
                      \* its arguments, what it has read so far, its result
    xp,               \* an export pass: position, output written so far
    mg,               \* a run of the date migration: position, counters, outcome
    schema            \* sqlite_master: the names of the tables and indexes of the file
                      \* and of the columns added to table content after its creation

vars == <<content, history, contentSeq, lastInsertRowid, now, last, upserted, ex, xp, mg,
          schema>>

\* The store, and the exporter's own state.
storeVars == <<content, history, contentSeq, lastInsertRowid, now, last, upserted, schema>>
exporterVars == <<ex, xp>>
\* What the operations of the store leave alone.
processVars == <<exporterVars, mg>>

\* ------------------------------------------------------------------ bounds
MaxClock == 4

\* ------------------------------------------------------------------ values
JNull == [t |-> "null"]
JStr(s) == [t |-> "str", v |-> s]
JNum(n) == [t |-> "num", v |-> n]
JBool(b) == [t |-> "bool", v |-> b]
JArr(s) == [t |-> "arr", v |-> s]
JObj(f) == [t |-> "obj", v |-> f]
JText(v) == [t |-> "text", v |-> v]
JBlob == [t |-> "blob"]

EmptyDict == JObj(<<>>)

\* Python truthiness: None, False, 0, "", [] and {} are falsy.
Truthy(x) ==
    CASE x.t = "null" -> FALSE
      [] x.t = "bool" -> x.v
      [] x.t = "num" -> x.v # 0
      [] x.t = "str" -> x.v # ""
      [] x.t = "arr" -> Len(x.v) > 0
      [] x.t = "obj" -> DOMAIN x.v # {}
      [] OTHER -> TRUE

\* dict.get(key, default)
DictGet(d, k, default) == IF k \in DOMAIN d THEN d[k] ELSE default

\* json.dumps(v): the JSON text of v.
JsonDumps(v) == JText(v)

\* How sqlite3 binds a Python parameter: a bool is stored as the integer 0 / 1.
SqlBind(x) == IF x.t = "bool" THEN JNum(IF x.v THEN 1 ELSE 0) ELSE x


\* ------------------------------------------------------------ observations
(***************************************************************************)
(* An observation is a Python dict: a function from the keys it carries to *)
(* their values.  The observations the model feeds to upsert_content:      *)
(*   ObsBare     only the slug: every optional key absent                  *)
(*   ObsMovie    every key present, a restricted movie with genres         *)
(*   ObsEpisode  an accessible episode with an empty genre list and        *)
(*               explicit None values                                      *)
(*   ObsNoMeta   an item whose metadata is None                            *)
(*   ObsBytes    a restricted item whose title arrives as bytes            *)
(*   ObsMixed    an item whose images carry creation dates of two types    *)
(***************************************************************************)
Slugs == {"x", "y"}

ObsBare(s) == [slug |-> JStr(s)]

ObsMovie(s) ==
    [slug |-> JStr(s), title |-> JStr("t1"), type |-> JStr("movie"),
     duration |-> JNum(90), year |-> JNum(2020),
     genres |-> JArr(<<JStr("g")>>),
     is_geo_restricted |-> JBool(TRUE), restriction_type |-> JStr("manifest_403"),
     metadata |-> JObj([available_until |-> JStr("d2")])]

ObsEpisode(s) ==
    [slug |-> JStr(s), title |-> JStr("t2"), type |-> JStr("episode"),
     duration |-> JNull, year |-> JNull,
     genres |-> JArr(<<>>),
     series_slug |-> JStr("ser"), series_title |-> JStr("Ser"),
     season_number |-> JNum(2), episode_number |-> JNum(1),
     is_geo_restricted |-> JBool(FALSE), restriction_type |-> JNull,
     metadata |-> JObj([date_created |-> JStr("d1")])]

ObsNoMeta(s) ==
    [slug |-> JStr(s), title |-> JStr("t1"), type |-> JStr("movie"),
     genres |-> JNull, metadata |-> JNull]

ObsBytes(s) ==
    [slug |-> JStr(s), title |-> JBlob, type |-> JStr("movie"),
     is_geo_restricted |-> JBool(TRUE), restriction_type |-> JStr("manifest_403"),
     metadata |-> JObj([images |-> JArr(<<JObj([file |-> JStr("a.jpg")])>>)])]

ObsMixed(s) ==
    [slug |-> JStr(s), title |-> JStr("t3"), type |-> JStr("movie"),
     metadata |-> JObj([images |-> JArr(<<JObj([date_created |-> JStr("d1")]),
                                          JObj([date_created |-> JNum(3)])>>)])]

Profiles == {"bare", "movie", "episode", "nometa", "bytes"}

Observation(profile, s) ==
    CASE profile = "bare" -> ObsBare(s)
      [] profile = "movie" -> ObsMovie(s)
      [] profile = "episode" -> ObsEpisode(s)
      [] profile = "nometa" -> ObsNoMeta(s)
      [] profile = "bytes" -> ObsBytes(s)
      [] profile = "mixed" -> ObsMixed(s)

\* The outcomes of a restriction check handed to add_check_history.
CheckResults ==
    {[is_geo_restricted |-> JBool(TRUE), status_code |-> JNum(403)],
     [error |-> JStr("timeout")]}

\* ------------------------------------------------------------------ schema
\* The columns upsert_content writes from the observation, besides slug.
MutableColumns ==
    {"title", "type", "duration", "year", "genres", "series_slug", "series_title",
     "season_number", "episode_number", "is_geo_restricted", "restriction_type",
     "metadata"}

\* "Prepare data": the value upsert_content binds for each column.
PrepareGenres(o) ==
    IF Truthy(DictGet(o, "genres", JNull))
    THEN JsonDumps(DictGet(o, "genres", JArr(<<>>)))
    ELSE JNull

PrepareColumn(o, c) ==
    CASE c = "type" -> DictGet(o, "type", JStr("unknown"))
      [] c = "genres" -> PrepareGenres(o)
      [] c = "metadata" -> JsonDumps(DictGet(o, "metadata", EmptyDict))
      [] OTHER -> SqlBind(DictGet(o, c, JNull))

\* The position of the row holding slug s, 0 if there is none (slug is UNIQUE).
RowOf(c, s) ==
    IF \E i \in 1..Len(c) : c[i].slug = JStr(s)
    THEN CHOOSE i \in 1..Len(c) : c[i].slug = JStr(s)
    ELSE 0

\* The row INSERT creates in the table of CREATE TABLE content: the named
\* columns, and both timestamps defaulted to CURRENT_TIMESTAMP.
InsertedRow(o, id, t) ==
    [c \in MutableColumns |-> PrepareColumn(o, c)] @@
    [id |-> id, slug |-> o.slug, last_checked |-> JNum(t),
     created_at |-> JNum(t), updated_at |-> JNum(t)]

\* ON CONFLICT(slug) DO UPDATE SET ...: every mutable column takes the excluded
\* (new) value; id, created_at and every column added to the table later (the
\* derived dates, the normalized season number) are not named and keep their
\* values.
ConflictUpdatedRow(old, o, t) ==
    ([c \in MutableColumns |-> PrepareColumn(o, c)] @@
     [id |-> old.id, slug |-> old.slug, last_checked |-> JNum(t),
      created_at |-> old.created_at, updated_at |-> JNum(t)]) @@ old

\* Mutant: the conflict clause is lost, every upsert inserts.
UpsertRowsAlwaysInsert(c, o, id, t) == Append(c, InsertedRow(o, id, t))

\* The table after INSERT ... ON CONFLICT(slug) DO UPDATE.
UpsertRows(c, o, id, t) ==
    LET i == RowOf(c, o.slug.v) IN
    IF i = 0
    THEN Append(c, InsertedRow(o, id, t))
    ELSE [c EXCEPT ![i] = ConflictUpdatedRow(c[i], o, t)]

\* cursor.lastrowid after the statement: the connection's last_insert_rowid(),
\* which only a row actually inserted changes.
UpsertLastRowid(c, o, id, prev) == IF RowOf(c, o.slug.v) = 0 THEN id ELSE prev

Op(name, arg, ret) == [op |-> name, arg |-> arg, ret |-> ret, raised |-> FALSE]

\* The columns a store may have besides those of CREATE TABLE content: the two
\* the date backfill writes and the one the season migration counts.
DateColumns == {"available_until", "publication_date"}
AddedColumns == DateColumns \cup {"season_number_normalized"}

\* The rows of a table that has the columns cols besides its own: a row that
\* was never given a value in such a column holds NULL there.
AddColumns(c, cols) == [i \in 1..Len(c) |-> c[i] @@ [col \in cols |-> JNull]]

\* The file at the path of a store:
\*   "missing"  no file,
\*   "legacy"   a store as ContentDatabase creates it,
\*   "current"  a store whose content table has the date columns as well,
\*   "seasons"  a store whose content table has the normalized season column.
Stores == {"missing", "legacy", "current"}
SeasonStores == {"missing", "legacy", "seasons"}

\* ContentDatabase.upsert_content.  AUTOINCREMENT draws a fresh rowid for the
\* statement whether or not the conflict clause is taken: sqlite_sequence advances
\* on every call.
upsert_content(o) ==
    /\ now < MaxClock
    /\ content' = AddColumns(UpsertRows(content, o, contentSeq + 1, now),
                             schema \cap AddedColumns)
    /\ contentSeq' = contentSeq + 1
    /\ lastInsertRowid' = UpsertLastRowid(content, o, contentSeq + 1, lastInsertRowid)
    /\ last' = Op("upsert_content", o, JNum(lastInsertRowid'))
    /\ now' = now + 1
    /\ upserted' = upserted \cup {o.slug.v}
    /\ UNCHANGED <<history, schema, processVars>>

\* The row add_check_history inserts.
HistoryRow(id, s, r, t) ==
    [id |-> id, slug |-> JStr(s), checked_at |-> JNum(t),
     was_restricted |-> SqlBind(DictGet(r, "is_geo_restricted", JNull)),
     status_code |-> DictGet(r, "status_code", JNull),
     method_used |-> JStr("manifest_check"),
     error |-> DictGet(r, "error", JNull)]

\* Mutant: one history row per slug, a later check overwrites the earlier one.
AddHistoryRowsReplace(h, s, r, t) ==
    IF \E i \in 1..Len(h) : h[i].slug = JStr(s)
    THEN LET i == CHOOSE j \in 1..Len(h) : h[j].slug = JStr(s) IN
         [h EXCEPT ![i] = HistoryRow(h[i].id, s, r, t)]
    ELSE Append(h, HistoryRow(Len(h) + 1, s, r, t))

AddHistoryRows(h, s, r, t) == Append(h, HistoryRow(Len(h) + 1, s, r, t))

\* ContentDatabase.add_check_history.  Foreign keys are not enforced (SQLite's
\* default), so the slug need not be in the catalog.
add_check_history(s, r) ==
    /\ now < MaxClock
    /\ history' = AddHistoryRows(history, s, r, now)
    /\ lastInsertRowid' = Len(history')
    /\ last' = Op("add_check_history", [slug |-> JStr(s), result |-> r], JNull)
    /\ now' = now + 1
    /\ UNCHANGED <<content, contentSeq, upserted, schema, processVars>>

\* The tables of the store and the indexes on each of them.
Tables == {"content", "check_history"}

IndexesOn(table) ==
    IF table = "content"
    THEN {"idx_content_type", "idx_content_geo_restricted", "idx_content_series_slug"}
    ELSE {"idx_check_history_slug", "idx_check_history_checked_at"}

SchemaObjects == Tables \cup IndexesOn("content") \cup IndexesOn("check_history")

\* sqlite_master of the file of a store.
SchemaOf(store) ==
    CASE store = "missing" -> {}
      [] store = "legacy" -> SchemaObjects
      [] store = "current" -> SchemaObjects \cup DateColumns
      [] store = "seasons" -> SchemaObjects \cup {"season_number_normalized"}

\* The seven CREATE ... IF NOT EXISTS statements of _create_tables, in the order
\* they are run, by the object each creates.  The connection is in autocommit
\* for them: each takes effect on its own, and another connection may write
\* between two of them; the commit that follows them has nothing to commit.
SchemaStatements ==
    <<"content", "check_history", "idx_content_type", "idx_content_geo_restricted",
      "idx_content_series_slug", "idx_check_history_slug", "idx_check_history_checked_at">>

\* CREATE ... IF NOT EXISTS obj: what is missing is created, what exists is
\* left alone.
CreateObject(s, obj) == s \cup {obj}

\* Mutant: the table is created anew.
CreateTablesAnew(c) == <<>>

\* CREATE TABLE IF NOT EXISTS, on the rows: an existing table keeps its rows, a
\* table that did not exist (no rows) is created empty.
CreateTables(c) == c

\* The effect of the statement that creates obj on the file.
RunStatement(obj) ==
    /\ schema' = CreateObject(schema, obj)
    /\ content' = IF obj = "content" THEN CreateTables(content) ELSE content
    /\ history' = IF obj = "check_history" THEN CreateTables(history) ELSE history

\* ContentDatabase.__init__ by a client of the store: a connection of its own,
\* and the first statement of _create_tables.  The objects and the number of
\* rows found in the file are recorded.
create_begin ==
    /\ now < MaxClock
    /\ ex.pc \in {"none", "return"}
    /\ ex' = [pc |-> "call", fn |-> "create_tables", found |-> schema,
              rows |-> Len(content) + Len(history), done |-> 1]
    /\ RunStatement(SchemaStatements[1])
    /\ now' = now + 1
    /\ UNCHANGED <<contentSeq, lastInsertRowid, last, upserted, xp, mg>>

\* The next statement of _create_tables; after the last, __init__ returns.
create_statement ==
    LET k == ex.done + 1 IN
    /\ ex.pc = "call" /\ ex.fn = "create_tables"
    /\ ex' = IF k = Len(SchemaStatements)
             THEN [pc |-> "return", fn |-> ex.fn, found |-> ex.found, rows |-> ex.rows,
                   raised |-> FALSE, result |-> JNull]
             ELSE [ex EXCEPT !.done = k]
    /\ RunStatement(SchemaStatements[k])
    /\ UNCHANGED <<contentSeq, lastInsertRowid, now, last, upserted, xp, mg>>

\* -------------------------------------------------------------- statistics
\* SELECT COUNT(*) FROM content WHERE is_geo_restricted = flag / IS NULL
CountFlag(c, flag) == Cardinality({i \in 1..Len(c) : c[i].is_geo_restricted = flag})

\* SELECT type, COUNT(*) FROM content GROUP BY type, as a dict
ByType(c) ==
    [ty \in {c[i].type.v : i \in 1..Len(c)} |->
        Cardinality({i \in 1..Len(c) : c[i].type = JStr(ty)})]

\* SELECT MAX(last_checked) FROM content: NULL when no row has a value.
MaxLastChecked(c) ==
    LET ts == {c[i].last_checked.v : i \in {j \in 1..Len(c) : c[j].last_checked # JNull}} IN
    IF ts = {} THEN JNull ELSE JNum(CHOOSE t \in ts : \A u \in ts : u <= t)

\* count / total * 100 as the exact fraction num / den; the integer 0 when the
\* catalog is empty.
Percentage(count, total) ==
    IF total > 0 THEN [num |-> count * 100, den |-> total] ELSE [num |-> 0, den |-> 1]

\* Mutant: every row that is not restricted counts as accessible.
GetStatisticsUnknownAsAccessible(c) ==
    [total_content |-> Len(c),
     by_type |-> ByType(c),
     geo_restricted_count |-> CountFlag(c, JNum(1)),
     accessible_count |-> Len(c) - CountFlag(c, JNum(1)),
     unknown_count |-> CountFlag(c, JNull),
     geo_restricted_percentage |-> Percentage(CountFlag(c, JNum(1)), Len(c)),
     last_check |-> MaxLastChecked(c)]

\* ContentDatabase.get_statistics
GetStatistics(c) ==
    [total_content |-> Len(c),
     by_type |-> ByType(c),
     geo_restricted_count |-> CountFlag(c, JNum(1)),
     accessible_count |-> CountFlag(c, JNum(0)),
     unknown_count |-> CountFlag(c, JNull),
     geo_restricted_percentage |-> Percentage(CountFlag(c, JNum(1)), Len(c)),
     last_check |-> MaxLastChecked(c)]

\* The six SELECT statements of get_statistics, in the order they are run.  The
\* connection is in autocommit: each statement reads the table as it is when the
\* statement runs, and another connection may commit between two of them.
StatisticsQueries ==
    <<"total_content", "by_type", "geo_restricted_count", "accessible_count",
      "unknown_count", "last_check">>

\* stats[key] = the result of the statement, read from the table as it is now.
ReadStatistic(stats, key, c) == (key :> GetStatistics(c)[key]) @@ stats

\* The percentage is computed from the two counts read earlier.
WithPercentage(stats) ==
    ("geo_restricted_percentage" :>
        Percentage(stats.geo_restricted_count, stats.total_content)) @@ stats

\* get_statistics is called: the cursor, and the first SELECT.
statistics_begin ==
    /\ now < MaxClock
    /\ ex.pc \in {"none", "return"}
    /\ ex' = [pc |-> "call", fn |-> "get_statistics", since |-> now + 1, done |-> 1,
              stats |-> ReadStatistic(<<>>, StatisticsQueries[1], content)]
    /\ now' = now + 1
    /\ UNCHANGED <<content, history, contentSeq, lastInsertRowid, last, upserted, schema,
                   xp, mg>>

\* The next SELECT of the call, up to the count of the rows with a NULL flag,
\* after which the percentage is computed.
statistics_select ==
    LET key == StatisticsQueries[ex.done + 1]
        read == ReadStatistic(ex.stats, key, content) IN
    /\ ex.pc = "call" /\ ex.fn = "get_statistics"
    /\ ex.done + 1 < Len(StatisticsQueries)
    /\ ex' = [ex EXCEPT !.done = ex.done + 1,
                        !.stats = IF key = "unknown_count" THEN WithPercentage(read) ELSE read]
    /\ UNCHANGED <<storeVars, xp, mg>>

\* The last SELECT, and the return of the dictionary.
statistics_return ==
    /\ ex.pc = "call" /\ ex.fn = "get_statistics"
    /\ ex.done + 1 = Len(StatisticsQueries)
    /\ ex' = [pc |-> "return", fn |-> ex.fn, since |-> ex.since, raised |-> FALSE,
              result |-> ReadStatistic(ex.stats, StatisticsQueries[ex.done + 1], content)]
    /\ UNCHANGED <<storeVars, xp, mg>>

\* ------------------------------------------------------------ date backfill
\* The strings the payloads carry, in Python's (lexicographic) order.
Lexicon == <<"", "d0", "d1", "d2", "d3">>
StrRank(s) == CHOOSE i \in 1..Len(Lexicon) : Lexicon[i] = s

\* a < b as Python orders two values; only two strings or two numbers compare.
Comparable(a, b) == a.t = b.t /\ a.t \in {"str", "num"}
PyLess(a, b) == IF a.t = "str" THEN StrRank(a.v) < StrRank(b.v) ELSE a.v < b.v

\* min(list): the first smallest element; TypeError if two elements do not compare.
RECURSIVE PyMin(_)
PyMin(l) ==
    IF Len(l) = 1 THEN [ok |-> TRUE, v |-> l[1]]
    ELSE LET m == PyMin(SubSeq(l, 1, Len(l) - 1)) IN
         IF ~m.ok \/ ~Comparable(l[Len(l)], m.v) THEN [ok |-> FALSE, v |-> JNull]
         ELSE IF PyLess(l[Len(l)], m.v) THEN [ok |-> TRUE, v |-> l[Len(l)]] ELSE m

\* [img.get('date_created') for img in images
\*      if isinstance(img, dict) and img.get('date_created')]
RECURSIVE ImageDates(_)
ImageDates(images) ==
    IF Len(images) = 0 THEN <<>>
    ELSE LET img == images[Len(images)]
             front == ImageDates(SubSeq(images, 1, Len(images) - 1)) IN
         IF img.t = "obj" /\ Truthy(DictGet(img.v, "date_created", JNull))
         THEN Append(front, img.v["date_created"])
         ELSE front

\* The publication date of a payload dict: its date_created, else the oldest
\* date_created of its images.  ok = FALSE: min() raised TypeError.
PublicationDate(m) ==
    LET own == DictGet(m, "date_created", JNull)
        images == DictGet(m, "images", JArr(<<>>))
        dates == IF images.t = "arr" THEN ImageDates(images.v) ELSE <<>> IN
    IF Truthy(own) \/ ~(Truthy(images) /\ images.t = "arr") \/ Len(dates) = 0
    THEN [ok |-> TRUE, v |-> own]
    ELSE PyMin(dates)

\* json.loads of a stored TEXT value: ok = FALSE is JSONDecodeError.
JsonLoads(x) == IF x.t = "text" THEN [ok |-> TRUE, v |-> x.v] ELSE [ok |-> FALSE, v |-> JNull]

\* sqlite3 binds None, int, float, str and bytes; a list or a dict raises.
Bindable(x) == x.t \notin {"arr", "obj"}

(***************************************************************************)
(* One pass of the loop body over a row.  kind is                          *)
(*   "updated"  the UPDATE ran,             "skipped"  nothing to write,   *)
(*   "error"    an exception the loop catches (JSONDecodeError, TypeError, *)
(*              ValueError),                                               *)
(*   "raise"    an exception it does not catch, which ends the run.        *)
(***************************************************************************)
ProcessRow(row) ==
    LET parsed == JsonLoads(row.metadata)
        m == parsed.v.v
        au == DictGet(m, "available_until", JNull)
        pd == PublicationDate(m) IN
    IF ~Truthy(row.metadata) THEN [kind |-> "skipped"]
    ELSE IF ~parsed.ok THEN [kind |-> "error"]
    ELSE IF parsed.v.t # "obj" THEN [kind |-> "raise"]
    ELSE IF ~pd.ok THEN [kind |-> "error"]
    ELSE IF ~(Truthy(au) \/ Truthy(pd.v)) THEN [kind |-> "skipped"]
    ELSE IF ~(Bindable(au) /\ Bindable(pd.v)) THEN [kind |-> "raise"]
    ELSE [kind |-> "updated",
          available_until |-> SqlBind(au), publication_date |-> SqlBind(pd.v)]

\* UPDATE content SET available_until = ?, publication_date = ? WHERE id = ?,
\* run for the rows the loop body counts as updated.
UpdateRow(row, r) ==
    IF r.kind = "updated"
    THEN [row EXCEPT !.available_until = r.available_until,
                     !.publication_date = r.publication_date]
    ELSE row

UpdateDates(c, id, r) ==
    [i \in 1..Len(c) |-> IF c[i].id = id THEN UpdateRow(c[i], r) ELSE c[i]]

NoCounts == [updated |-> 0, skipped |-> 0, errors |-> 0]

Count(counts, kind) ==
    [updated |-> counts.updated + (IF kind = "updated" THEN 1 ELSE 0),
     skipped |-> counts.skipped + (IF kind = "skipped" THEN 1 ELSE 0),
     errors |-> counts.errors + (IF kind = "error" THEN 1 ELSE 0)]

Min(a, b) == IF a < b THEN a ELSE b

\* SELECT id, metadata FROM content ORDER BY id LIMIT batch OFFSET offset, and
\* fetchall: the window as the table holds it when the statement runs.
FetchWindow(c, offset, batch) ==
    [k \in 1..(Min(offset + batch, Len(c)) - offset) |->
        [id |-> c[offset + k].id, metadata |-> c[offset + k].metadata]]

\* The for loop over the fetched rows from the k-th on, on the table as it is
\* when the loop writes.  A raise leaves the window uncommitted: its updates
\* are lost.
RECURSIVE ProcessBatch(_, _, _, _)
ProcessBatch(c, rows, k, counts) ==
    IF k > Len(rows) THEN [content |-> c, counts |-> counts, raised |-> FALSE]
    ELSE LET r == ProcessRow(rows[k]) IN
         IF r.kind = "raise" THEN [content |-> c, counts |-> counts, raised |-> TRUE]
         ELSE ProcessBatch(UpdateDates(c, rows[k].id, r), rows, k + 1, Count(counts, r.kind))

\* The while loop of populate_dates from offset on: one window, commit, next.
RECURSIVE RunWindows(_, _, _, _)
RunWindows(c, offset, batch, counts) ==
    IF offset >= Len(c) THEN [content |-> c, counts |-> counts, raised |-> FALSE]
    ELSE LET w == ProcessBatch(c, FetchWindow(c, offset, batch), 1, counts) IN
         IF w.raised THEN [content |-> c, counts |-> counts, raised |-> TRUE]
         ELSE RunWindows(w.content, offset + batch, batch, w.counts)

PopulateDates(c, batch) == RunWindows(c, 0, batch, NoCounts)

BatchSizes == {1, 2}

\* No helper call and no export pass in progress.
NoCall == [pc |-> "none"]
ExporterIdle == ex = NoCall /\ xp = NoCall

\* A new store file, opened once: empty tables.
EmptyStore ==
    /\ content = <<>>
    /\ history = <<>>
    /\ schema = SchemaObjects
    /\ contentSeq = 0
    /\ lastInsertRowid = 0
    /\ now = 0
    /\ last = Op("init", JNull, JNull)
    /\ upserted = {}


\* ------------------------------------------------------- metadata projector
(***************************************************************************)
(* A path is a Python str.  The model holds it as the sequence of its      *)
(* tokens: a field name, an index literal, or one of the characters the    *)
(* code splits on, ".", "[" and "]".  Names and index literals contain     *)
(* none of these characters, so splitting the token sequence at a token    *)
(* is splitting the string at that character.                              *)
(***************************************************************************)
FieldNames == {"images", "file", "a"}
IndexLiterals == {"0", "5"}

\* int(literal); any other string raises ValueError.
IsIntLiteral(part) == Len(part) = 1 /\ part[1] \in IndexLiterals
IntOf(part) == IF part[1] = "0" THEN 0 ELSE 5

Contains(s, tok) == \E i \in 1..Len(s) : s[i] = tok
FirstIndex(s, tok) == CHOOSE i \in 1..Len(s) : s[i] = tok /\ \A j \in 1..(i - 1) : s[j] # tok

\* str.split(sep): the pieces of s between the occurrences of sep.
RECURSIVE Split(_, _)
Split(s, sep) ==
    IF ~Contains(s, sep) THEN <<s>>
    ELSE LET i == FirstIndex(s, sep) IN
         <<SubSeq(s, 1, i - 1)>> \o Split(SubSeq(s, i + 1, Len(s)), sep)

\* sep.join(parts)
RECURSIVE Join(_, _)
Join(parts, sep) ==
    IF Len(parts) = 0 THEN <<>>
    ELSE IF Len(parts) = 1 THEN parts[1]
    ELSE parts[1] \o <<sep>> \o Join(Tail(parts), sep)

\* str.lstrip(ch)
RECURSIVE LStrip(_, _)
LStrip(s, ch) == IF Len(s) > 0 /\ s[1] = ch THEN LStrip(Tail(s), ch) ELSE s

\* value.get(part) for a dict value: the keys of the payloads are field names.
GetPart(value, part) ==
    IF Len(part) = 1 /\ part[1] \in DOMAIN value.v THEN value.v[part[1]] ELSE JNull

\* The loop over rest.split('.') after an indexed element: resolved = FALSE is
\* "return default".
RECURSIVE WalkRest(_, _)
WalkRest(value, parts) ==
    IF Len(parts) = 0 THEN [resolved |-> TRUE, v |-> value]
    ELSE IF Len(parts[1]) = 0 THEN WalkRest(value, Tail(parts))
    ELSE LET next == IF value.t = "obj" THEN GetPart(value, parts[1]) ELSE JNull IN
         IF next = JNull THEN [resolved |-> FALSE, v |-> JNull]
         ELSE WalkRest(next, Tail(parts))

\* The loop over path.split('.') of the plain dot path.
RECURSIVE WalkDots(_, _)
WalkDots(value, parts) ==
    IF Len(parts) = 0 THEN [resolved |-> TRUE, v |-> value]
    ELSE IF value.t # "obj" THEN [resolved |-> FALSE, v |-> JNull]
    ELSE LET next == GetPart(value, parts[1]) IN
         IF next = JNull THEN [resolved |-> FALSE, v |-> JNull]
         ELSE WalkDots(next, Tail(parts))

\* key in metadata, for a dict, a list and a number or None (TypeError).
KeyIn(key, metadata) ==
    CASE metadata.t = "obj" -> [ok |-> TRUE, v |-> Len(key) = 1 /\ key[1] \in DOMAIN metadata.v]
      [] metadata.t = "arr" ->
            [ok |-> TRUE,
             v |-> Len(key) = 1 /\ \E i \in 1..Len(metadata.v) : metadata.v[i] = JStr(key[1])]
      [] OTHER -> [ok |-> FALSE, v |-> FALSE]

\* The branch "if '[' in path" on the parsed payload.
ExtractIndexed(metadata, path, default) ==
    LET parts == Split(path, "[")
        key == parts[1]
        tail == Split(parts[2], "]")
        array_part == tail[1]
        rest == LStrip(Join(Tail(tail), "]"), ".")
        has == KeyIn(key, metadata) IN
    IF ~has.ok THEN default                       \* TypeError
    ELSE IF ~has.v THEN JNull                     \* falls off the end of the function
    ELSE IF metadata.t # "obj" THEN default       \* a list indexed by a str: TypeError
    ELSE IF metadata.v[key[1]].t # "arr" THEN JNull
    ELSE IF ~IsIntLiteral(array_part) THEN default   \* ValueError
    ELSE IF IntOf(array_part) >= Len(metadata.v[key[1]].v) THEN JNull
    ELSE LET value == metadata.v[key[1]].v[IntOf(array_part) + 1]
             w == IF Len(rest) > 0 THEN WalkRest(value, Split(rest, "."))
                  ELSE [resolved |-> TRUE, v |-> value] IN
         IF w.resolved THEN w.v ELSE default

\* The branch of the plain dot path.
ExtractDotted(metadata, path, default) ==
    LET w == WalkDots(metadata, Split(path, ".")) IN
    IF w.resolved THEN w.v ELSE default

\* JSONExporter._extract_from_metadata(item, path, default).  The stored payload
\* is JSON text, or already structured data, which is used as it is.
ExtractFromMetadata(item, path, default) ==
    LET metadata_str == DictGet(item, "metadata", JNull)
        isStr == metadata_str.t \in {"str", "text"}
        parsed == IF isStr THEN JsonLoads(metadata_str) ELSE [ok |-> TRUE, v |-> metadata_str] IN
    IF ~Truthy(metadata_str) THEN default
    ELSE IF ~parsed.ok THEN default               \* json.JSONDecodeError
    ELSE IF Contains(path, "[") THEN ExtractIndexed(parsed.v, path, default)
    ELSE ExtractDotted(parsed.v, path, default)

(***************************************************************************)
(* The calls the model makes: paths of up to MaxSegments segments, each a  *)
(* field name with an optional index, against a few payloads.              *)
(***************************************************************************)
MaxSegments == 2
NoIndex == "none"

Segments == [name : FieldNames, index : IndexLiterals \cup {NoIndex}]

SegmentLists == UNION {[1..n -> Segments] : n \in 1..MaxSegments}

SegmentText(seg) ==
    IF seg.index = NoIndex THEN <<seg.name>> ELSE <<seg.name, "[", seg.index, "]">>

\* The path string of a list of segments: the segments joined by ".".
RECURSIVE PathOf(_)
PathOf(segs) ==
    IF Len(segs) = 1 THEN SegmentText(segs[1])
    ELSE SegmentText(segs[1]) \o <<".">> \o PathOf(Tail(segs))

ImagesPayload ==
    JObj([images |-> JArr(<<JObj([file |-> JStr("a.jpg")])>>),
          a |-> JObj([images |-> JArr(<<JStr("b.jpg")>>), file |-> JStr("c.jpg")]),
          file |-> JStr("d.jpg")])

\* JSON text of a dict, the dict itself, JSON text of a list and of a number,
\* text that is not JSON, the empty string and None.
Payloads ==
    {JText(ImagesPayload), ImagesPayload, JText(JArr(<<JStr("a")>>)), JText(JNum(5)),
     JStr("{bad"), JStr(""), JNull}

Defaults == {JNull, JStr("D")}

ExtractCalls ==
    {[pc |-> "call", fn |-> "extract", item |-> [metadata |-> p], segments |-> segs,
      path |-> PathOf(segs), default |-> d] :
        p \in Payloads, segs \in SegmentLists, d \in Defaults}

extract_from_metadata ==
    /\ ex.pc = "call" /\ ex.fn = "extract"
    /\ ex' = [ex EXCEPT !.pc = "return"] @@
             [result |-> ExtractFromMetadata(ex.item, ex.path, ex.default)]
    /\ UNCHANGED <<storeVars, xp, mg>>

InitProjector == EmptyStore /\ xp = NoCall /\ mg = NoCall /\ ex \in ExtractCalls

NextProjector == extract_from_metadata

SpecProjector == InitProjector /\ [][NextProjector]_vars

\* ------------------------------------------------------- streaming exporter
\* The store object a JSONExporter is given (self.db):
\*   "ContentDatabase"  the class of database.py, which has no method
\*                      yield_all_content,
\*   "streaming"        a store that has the method the exporter calls.
Databases == {"ContentDatabase", "streaming"}

\* yield_all_content(geo_restricted_only) of a store that has it: the rows of
\* the catalog, fetched lazily, restricted to is_geo_restricted = 1 on demand.
RECURSIVE YieldAllContent(_, _)
YieldAllContent(c, geoOnly) ==
    IF Len(c) = 0 THEN <<>>
    ELSE IF geoOnly /\ c[1].is_geo_restricted # JNum(1) THEN YieldAllContent(Tail(c), geoOnly)
    ELSE <<c[1]>> \o YieldAllContent(Tail(c), geoOnly)

\* a or b
PyOr(a, b) == IF Truthy(a) THEN a ELSE b

\* json.loads(item['genres']) if item['genres'] else []
GenresOut(item) ==
    IF ~Truthy(item.genres) THEN [ok |-> TRUE, v |-> JArr(<<>>)] ELSE JsonLoads(item.genres)

\* bool(item['is_geo_restricted']) if item['is_geo_restricted'] is not None else None
FlagOut(item) ==
    IF item.is_geo_restricted = JNull THEN JNull ELSE JBool(Truthy(item.is_geo_restricted))

\* The fields both exports take from the columns of the row, and the thumbnail.
\* The other fields of the record (description, age_rating, languages, platform,
\* media_type, content_url) are computed from the parsed payload and are JSON
\* values whatever the row holds; they are not part of this record.
CommonFields(item) ==
    [slug |-> item.slug, title |-> item.title, type |-> item.type,
     series_title |-> item.series_title,
     season_number |-> PyOr(DictGet(item, "season_number_normalized", JNull),
                            item.season_number),
     episode_number |-> item.episode_number,
     last_checked |-> item.last_checked,
     thumbnail |-> ExtractFromMetadata(item, <<"images", "[", "0", "]", ".", "file">>, JNull),
     available_until |-> DictGet(item, "available_until", JNull),
     publication_date |-> DictGet(item, "publication_date", JNull)]

\* content_item of export_all and of export_geo_restricted_only.
ContentItem(kind, item) ==
    IF kind = "geo" THEN CommonFields(item)
    ELSE CommonFields(item) @@
         [duration |-> item.duration, year |-> item.year, genres |-> GenresOut(item).v,
          series_slug |-> item.series_slug,
          is_geo_restricted |-> FlagOut(item),
          restriction_type |-> item.restriction_type]

\* json.dumps(content_item) raises TypeError on a bytes value.
Serializable(d) == \A k \in DOMAIN d : d[k].t # "blob"

\* The try block: ok = FALSE when building or serialising the record raises.
Project(kind, item) ==
    IF kind = "all" /\ ~GenresOut(item).ok THEN [ok |-> FALSE, v |-> JNull]
    ELSE IF ~Serializable(ContentItem(kind, item)) THEN [ok |-> FALSE, v |-> JNull]
    ELSE [ok |-> TRUE, v |-> ContentItem(kind, item)]

\* What is written to the file, as tokens.
Tok(t) == [tok |-> t]
ItemTok(v) == [tok |-> "item", v |-> v]

\* The header: export_date and the statistics get_statistics returned
\* (export_all) or their count of restricted rows (export_geo_restricted_only),
\* then the opening of the array.
Header(kind, stats, t) ==
    <<Tok("{"),
      [tok |-> "header", export_date |-> t,
       v |-> IF kind = "all" THEN stats ELSE [count |-> stats.geo_restricted_count]],
      Tok("[")>>

\* A turn of the loop that counts the record before it is known to serialise.
LoopBodyCountsVisited(x, kind) ==
    LET item == Head(x.pending)
        sep == IF x.first THEN <<>> ELSE <<Tok(",")>>
        p == Project(kind, item) IN
    [x EXCEPT !.pending = Tail(x.pending),
              !.first = FALSE,
              !.out = x.out \o sep \o (IF p.ok THEN <<ItemTok(p.v)>> ELSE <<>>),
              !.count = x.count + 1]

\* One turn of the for loop: the comma, then the record unless it fails.
LoopBody(x, kind) ==
    LET item == Head(x.pending)
        sep == IF x.first THEN <<>> ELSE <<Tok(",")>>
        p == Project(kind, item) IN
    [x EXCEPT !.pending = Tail(x.pending),
              !.first = FALSE,
              !.out = x.out \o sep \o (IF p.ok THEN <<ItemTok(p.v)>> ELSE <<>>),
              !.count = x.count + (IF p.ok THEN 1 ELSE 0)]

ExportKinds == {"all", "geo"}

\* export_all / export_geo_restricted_only call get_statistics, whose SELECT
\* statements read the table one after the other; the crawler's connection may
\* commit between two of them.  This is the call and its first SELECT; since is
\* the time on the store's clock, which every write of the crawler moves on.
export_begin(kind, db) ==
    /\ xp.pc = "none"
    /\ xp' = [pc |-> "stats", kind |-> kind, db |-> db, since |-> now, done |-> 1,
              stats |-> ReadStatistic(<<>>, StatisticsQueries[1], content)]
    /\ UNCHANGED <<storeVars, ex, mg>>

\* The next SELECT of get_statistics.
export_select ==
    LET key == StatisticsQueries[xp.done + 1]
        read == ReadStatistic(xp.stats, key, content) IN
    /\ xp.pc = "stats"
    /\ xp.done < Len(StatisticsQueries)
    /\ xp' = [xp EXCEPT !.done = xp.done + 1,
                        !.stats = IF key = "unknown_count" THEN WithPercentage(read) ELSE read]
    /\ UNCHANGED <<storeVars, ex, mg>>

\* The statistics are returned, export_date is taken from the clock and the
\* header is written.
export_header ==
    /\ xp.pc = "stats"
    /\ xp.done = Len(StatisticsQueries)
    /\ xp' = [pc |-> "header", kind |-> xp.kind, db |-> xp.db, since |-> xp.since,
              out |-> Header(xp.kind, xp.stats, now)]
    /\ UNCHANGED <<storeVars, ex, mg>>

\* for item in self.db.yield_all_content(...).  On a ContentDatabase the
\* attribute lookup raises AttributeError: the with block closes the file as it
\* is, after the opening of the array, and the export returns nothing.  On a
\* store that has the method the query of the rows is run: the loop goes through
\* the rows the table holds now, whatever was written to it since the statistics
\* were read.
export_open ==
    /\ xp.pc = "header"
    /\ xp' = IF xp.db = "ContentDatabase"
             THEN [pc |-> "raised", kind |-> xp.kind, since |-> xp.since,
                   raised |-> "AttributeError", out |-> xp.out]
             ELSE [pc |-> "loop", kind |-> xp.kind, since |-> xp.since,
                   rows |-> YieldAllContent(content, xp.kind = "geo"),
                   pending |-> YieldAllContent(content, xp.kind = "geo"),
                   first |-> TRUE, count |-> 0, out |-> xp.out]
    /\ UNCHANGED <<storeVars, ex, mg>>

export_item ==
    /\ xp.pc = "loop" /\ Len(xp.pending) > 0
    /\ xp' = LoopBody(xp, xp.kind)
    /\ UNCHANGED <<storeVars, ex, mg>>

\* An end of the pass that closes the array only if a record was written.
export_endUnclosedWhenEmpty ==
    /\ xp.pc = "loop" /\ Len(xp.pending) = 0
    /\ xp' = [pc |-> "done", kind |-> xp.kind, since |-> xp.since, rows |-> xp.rows,
              out |-> xp.out \o (IF xp.count = 0 THEN <<Tok("}")>>
                                 ELSE <<Tok("]"), Tok("}")>>),
              items_exported |-> xp.count]
    /\ UNCHANGED <<storeVars, ex, mg>>

\* The array and the object are closed; the count is returned.
export_end ==
    /\ xp.pc = "loop" /\ Len(xp.pending) = 0
    /\ xp' = [pc |-> "done", kind |-> xp.kind, since |-> xp.since, rows |-> xp.rows,
              out |-> xp.out \o <<Tok("]"), Tok("}")>>,
              items_exported |-> xp.count]
    /\ UNCHANGED <<storeVars, ex, mg>>

(***************************************************************************)
(* The catalogs an export is run on: up to MaxRows slugs, each upserted    *)
(* once with one of the observation profiles.                              *)
(***************************************************************************)
MaxRows == 3
SlugNames == <<"x", "y", "z", "w", "v", "u">>

RECURSIVE CatalogOf(_)
CatalogOf(profiles) ==
    IF Len(profiles) = 0 THEN <<>>
    ELSE LET n == Len(profiles) IN
         UpsertRows(CatalogOf(SubSeq(profiles, 1, n - 1)),
                    Observation(profiles[n], SlugNames[n]), n, n - 1)

ProfileLists == UNION {[1..n -> Profiles] : n \in 0..MaxRows}

\* The file of a store after those upserts.
StoreFile(profiles, store) ==
    LET n == Len(profiles) IN
    /\ content = AddColumns(CatalogOf(profiles), SchemaOf(store) \cap AddedColumns)
    /\ history = <<>>
    /\ schema = SchemaOf(store)
    /\ contentSeq = n
    /\ lastInsertRowid = n
    /\ now = n
    /\ last = IF n = 0 THEN Op("init", JNull, JNull)
              ELSE Op("upsert_content", Observation(profiles[n], SlugNames[n]), JNum(n))
    /\ upserted = {SlugNames[i] : i \in 1..n}

\* A store created and filled through ContentDatabase.
StoreHolding(profiles) == StoreFile(profiles, "legacy")

InitExport == ex = NoCall /\ xp = NoCall /\ mg = NoCall /\ \E ps \in ProfileLists : StoreHolding(ps)

\* The items the crawler comes upon while an export runs: a restricted movie,
\* which is the first item of the catalog or an item new to it.
CrawlerProfiles == {"movie"}
CrawlerSlugs == {SlugNames[1], SlugNames[Len(content) + 1]}

\* The crawler, on its own connection, upserts an item while the export runs.
crawler_upsert(p, s) ==
    /\ xp.pc \in {"stats", "header", "loop"}
    /\ upsert_content(Observation(p, s))

NextExport ==
    \/ \E kind \in ExportKinds, db \in Databases : export_begin(kind, db)
    \/ export_select
    \/ export_header
    \/ export_open
    \/ export_item
    \/ export_end
    \/ \E p \in CrawlerProfiles, s \in CrawlerSlugs : crawler_upsert(p, s)

SpecExport == InitExport /\ [][NextExport]_vars

\* ------------------------------------------------- platforms and content URLs
DefaultPlatform == JStr("primeran.eus")

\* JSONExporter._parse_platform(platform_value): a list is returned as it is; a
\* string is read as JSON, and as a bare name when it is not JSON.
ParsePlatform(platform_value) ==
    LET parsed == JsonLoads(platform_value) IN
    IF platform_value.t = "arr" THEN platform_value
    ELSE IF platform_value.t \in {"str", "text"}
         THEN IF parsed.ok
              THEN IF parsed.v.t = "arr" THEN parsed.v
                   ELSE IF Truthy(parsed.v) THEN JArr(<<parsed.v>>)
                   ELSE JArr(<<DefaultPlatform>>)
              ELSE IF Truthy(platform_value) THEN JArr(<<platform_value>>)
                   ELSE JArr(<<DefaultPlatform>>)
    ELSE JArr(<<DefaultPlatform>>)

\* self._parse_platform(item.get('platform', 'primeran.eus'))
PlatformsOf(item) == ParsePlatform(DictGet(item, "platform", DefaultPlatform))

\* f"{base}{slug}"
Url(base, slug) == [t |-> "url", base |-> base, slug |-> slug]

\* 'series' in content_type.lower(), on the type names of the model.
Lower(name) == IF name = "Series" THEN "series" ELSE name
HasSeries(content_type) == Lower(content_type.v) = "series"

\* A list or a dict cannot be looked up in a dict (TypeError: unhashable).
Hashable(x) == x.t \notin {"arr", "obj"}

\* first_platform in platform_urls
InMap(x, map) == x.t = "str" /\ x.v \in DOMAIN map.v

\* A pattern lookup that takes every linked item of makusi.eus for an episode.
PatternUrlLinkedIsEpisode(item) ==
    LET slug == item.slug
        content_type == DictGet(item, "type", JStr(""))
        series_slug == DictGet(item, "series_slug", JNull)
        platforms == PlatformsOf(item)
        platform == IF Truthy(platforms) THEN platforms.v[1] ELSE DefaultPlatform IN
    IF platform = JStr("makusi.eus")
    THEN IF content_type = JStr("episode") \/ Truthy(series_slug)
         THEN Url("https://makusi.eus/ikusi/w/", slug)
         ELSE IF HasSeries(content_type) THEN Url("https://makusi.eus/ikusi/s/", slug)
         ELSE Url("https://makusi.eus/ikusi/m/", slug)
    ELSE IF platform = JStr("etbon.eus")
    THEN IF content_type = JStr("live") THEN Url("https://etbon.eus/ch/", slug)
         ELSE IF HasSeries(content_type) THEN Url("https://etbon.eus/s/", slug)
         ELSE Url("https://etbon.eus/m/", slug)
    ELSE Url("https://primeran.eus/m/", slug)

\* The URL built from the first platform, the type and the series linkage.
PatternUrl(item) ==
    LET slug == item.slug
        content_type == DictGet(item, "type", JStr(""))
        series_slug == DictGet(item, "series_slug", JNull)
        platforms == PlatformsOf(item)
        platform == IF Truthy(platforms) THEN platforms.v[1] ELSE DefaultPlatform IN
    IF platform = JStr("makusi.eus")
    THEN IF content_type = JStr("episode") THEN Url("https://makusi.eus/ikusi/w/", slug)
         ELSE IF HasSeries(content_type) \/ Truthy(series_slug)
              THEN IF Truthy(series_slug) /\ series_slug # slug
                   THEN Url("https://makusi.eus/ikusi/w/", slug)
                   ELSE Url("https://makusi.eus/ikusi/s/", slug)
         ELSE Url("https://makusi.eus/ikusi/m/", slug)
    ELSE IF platform = JStr("etbon.eus")
    THEN IF content_type = JStr("live") THEN Url("https://etbon.eus/ch/", slug)
         ELSE IF HasSeries(content_type) THEN Url("https://etbon.eus/s/", slug)
         ELSE Url("https://etbon.eus/m/", slug)
    ELSE Url("https://primeran.eus/m/", slug)

\* A content URL that ignores the URL map of the payload.
GetContentUrlPatternOnly(item) == [ok |-> TRUE, v |-> PatternUrl(item)]

\* JSONExporter._get_content_url(item); ok = FALSE when it raises.
GetContentUrl(item) ==
    LET platform_urls == ExtractFromMetadata(item, <<"platform_urls">>, JNull)
        platforms == PlatformsOf(item) IN
    IF platform_urls.t = "obj" /\ Truthy(platform_urls) /\ Truthy(platforms)
    THEN IF ~Hashable(platforms.v[1]) THEN [ok |-> FALSE, v |-> JNull]
         ELSE IF InMap(platforms.v[1], platform_urls)
              THEN [ok |-> TRUE, v |-> platform_urls.v[platforms.v[1].v]]
         ELSE [ok |-> TRUE, v |-> PatternUrl(item)]
    ELSE [ok |-> TRUE, v |-> PatternUrl(item)]

(***************************************************************************)
(* The calls the model makes.  Platform values: a bare name, an empty      *)
(* string, JSON text of a name, of a list, of an empty list, of null and   *)
(* of a number, a list, an empty list, None; or no platform key at all.    *)
(***************************************************************************)
PlatformNames == {"makusi.eus", "etbon.eus", "primeran.eus", "other.tv"}

PlatformValues ==
    {JStr(n) : n \in PlatformNames}
    \cup {JStr(""), JNull, JArr(<<>>), JText(JArr(<<>>)), JText(JNull), JText(JNum(7)),
          JText(JStr("makusi.eus")), JText(JStr("")),
          JArr(<<JStr("etbon.eus"), JStr("makusi.eus")>>),
          JText(JArr(<<JStr("makusi.eus"), JStr("etbon.eus")>>))}

PlatformItems == {EmptyDict.v} \cup {[platform |-> v] : v \in PlatformValues}

TypeNames == {"movie", "episode", "series", "Series", "live"}

\* No linkage, linkage to itself, linkage to another slug.
Linkages(slug) == {EmptyDict.v, [series_slug |-> JNull], [series_slug |-> JStr(slug)],
                   [series_slug |-> JStr("ser")]}

\* No payload, a payload without a URL map, with an empty one, with one that is
\* not a map, and maps with one and with two platforms.
UrlPayloads ==
    {EmptyDict.v,
     [metadata |-> JText(JObj([title |-> JStr("t")]))],
     [metadata |-> JText(JObj([platform_urls |-> EmptyDict]))],
     [metadata |-> JText(JObj([platform_urls |-> JStr("u0")]))],
     [metadata |-> JText(JObj([platform_urls |-> JObj("makusi.eus" :> JStr("u1"))]))],
     [metadata |-> JText(JObj([platform_urls |->
            JObj("etbon.eus" :> JStr("u2") @@ "other.tv" :> JStr("u3"))]))]}

UrlItems ==
    UNION {{[slug |-> JStr(s), type |-> JStr(ty)] @@ l @@ p @@ m :
               ty \in TypeNames, l \in Linkages(s), p \in PlatformItems, m \in UrlPayloads} :
           s \in Slugs}

UrlCalls ==
    {[pc |-> "call", fn |-> "parse_platform", item |-> i] : i \in PlatformItems}
    \cup {[pc |-> "call", fn |-> "get_content_url", item |-> i] : i \in UrlItems}

\* 'platform': self._parse_platform(item.get('platform', 'primeran.eus'))
parse_platform ==
    /\ ex.pc = "call" /\ ex.fn = "parse_platform"
    /\ ex' = [pc |-> "return", fn |-> ex.fn, item |-> ex.item,
              raised |-> FALSE, result |-> PlatformsOf(ex.item)]
    /\ UNCHANGED <<storeVars, xp, mg>>

\* 'content_url': self._get_content_url(item)
get_content_url ==
    /\ ex.pc = "call" /\ ex.fn = "get_content_url"
    /\ ex' = [pc |-> "return", fn |-> ex.fn, item |-> ex.item,
              raised |-> ~GetContentUrl(ex.item).ok, result |-> GetContentUrl(ex.item).v]
    /\ UNCHANGED <<storeVars, xp, mg>>

InitUrls == EmptyStore /\ xp = NoCall /\ mg = NoCall /\ ex \in UrlCalls

NextUrls == parse_platform \/ get_content_url

SpecUrls == InitUrls /\ [][NextUrls]_vars

\* ---------------------------------------------------------------- languages
\* The language codes of the payloads, in Python's (lexicographic) order.
CodeLexicon == <<"en", "es", "eu", "fr">>
CodeRank(s) == CHOOSE i \in 1..Len(CodeLexicon) : CodeLexicon[i] = s

\* a == b on two values of the payloads
PyEq(a, b) == a.t = b.t /\ a = b

\* The loop over metadata['audios']: the truthy code of every dict entry.
RECURSIVE AudioCodes(_)
AudioCodes(audios) ==
    IF Len(audios) = 0 THEN <<>>
    ELSE LET audio == audios[Len(audios)]
             front == AudioCodes(SubSeq(audios, 1, Len(audios) - 1)) IN
         IF audio.t = "obj" /\ Truthy(DictGet(audio.v, "code", JNull))
         THEN Append(front, audio.v["code"])
         ELSE front

\* The loop over metadata['subtitle']: the truthy code of the language dict of
\* every dict entry, unless the list holds it already.
RECURSIVE SubtitleCodes(_)
SubtitleCodes(subtitle) ==
    IF Len(subtitle) = 0 THEN <<>>
    ELSE LET sub == subtitle[Len(subtitle)]
             front == SubtitleCodes(SubSeq(subtitle, 1, Len(subtitle) - 1))
             lang == IF sub.t = "obj" THEN DictGet(sub.v, "language", JNull) ELSE JNull
             code == IF lang.t = "obj" THEN DictGet(lang.v, "code", JNull) ELSE JNull IN
         IF Truthy(code) /\ \A k \in 1..Len(front) : ~PyEq(front[k], code)
         THEN Append(front, code)
         ELSE front

\* The values of S, numbers or strings, in ascending order.
RECURSIVE SortedValues(_, _)
SortedValues(S, kind) ==
    IF S = {} THEN <<>>
    ELSE LET least == IF kind = "str"
                      THEN CHOOSE x \in S : \A y \in S : CodeRank(x) <= CodeRank(y)
                      ELSE CHOOSE x \in S : \A y \in S : x <= y IN
         <<[t |-> kind, v |-> least]>> \o SortedValues(S \ {least}, kind)

\* sorted(list(set(languages))): TypeError (ok = FALSE) on a code that is a list
\* or a dict (unhashable) and on codes of two types (not comparable).
SortedSet(languages) ==
    IF \E k \in 1..Len(languages) : ~Hashable(languages[k])
    THEN [ok |-> FALSE, v |-> <<>>]
    ELSE IF \E j, k \in 1..Len(languages) : languages[j].t # languages[k].t
    THEN [ok |-> FALSE, v |-> <<>>]
    ELSE IF Len(languages) = 0 THEN [ok |-> TRUE, v |-> <<>>]
    ELSE [ok |-> TRUE,
          v |-> SortedValues({languages[k].v : k \in 1..Len(languages)}, languages[1].t)]

\* Mutant: the subtitle codes join the audio codes.
ExtractLanguagesBoth(item) ==
    LET metadata_str == DictGet(item, "metadata", JNull)
        parsed == IF metadata_str.t \in {"str", "text"} THEN JsonLoads(metadata_str)
                  ELSE [ok |-> TRUE, v |-> metadata_str]
        metadata == parsed.v
        audios == DictGet(metadata.v, "audios", JNull)
        subtitle == DictGet(metadata.v, "subtitle", JNull)
        fromAudios == IF audios.t = "arr" THEN AudioCodes(audios.v) ELSE <<>>
        languages == IF subtitle.t = "arr"
                     THEN fromAudios \o SubtitleCodes(subtitle.v)
                     ELSE fromAudios IN
    IF ~Truthy(metadata_str) THEN JArr(<<>>)
    ELSE IF ~parsed.ok THEN JArr(<<>>)
    ELSE IF metadata.t # "obj" THEN JArr(<<>>)
    ELSE IF ~SortedSet(languages).ok THEN JArr(<<>>)
    ELSE JArr(SortedSet(languages).v)

\* JSONExporter._extract_languages(item).  A payload that is not a dict ends in
\* the empty list: 'audios' in metadata raises TypeError (None, a number), which
\* is caught, or is False (a list or a string without it), or is True and the
\* subscript metadata['audios'] raises TypeError.
ExtractLanguages(item) ==
    LET metadata_str == DictGet(item, "metadata", JNull)
        parsed == IF metadata_str.t \in {"str", "text"} THEN JsonLoads(metadata_str)
                  ELSE [ok |-> TRUE, v |-> metadata_str]
        metadata == parsed.v
        audios == DictGet(metadata.v, "audios", JNull)
        subtitle == DictGet(metadata.v, "subtitle", JNull)
        fromAudios == IF audios.t = "arr" THEN AudioCodes(audios.v) ELSE <<>>
        languages == IF Len(fromAudios) = 0 /\ subtitle.t = "arr"
                     THEN SubtitleCodes(subtitle.v)
                     ELSE fromAudios IN
    IF ~Truthy(metadata_str) THEN JArr(<<>>)
    ELSE IF ~parsed.ok THEN JArr(<<>>)
    ELSE IF metadata.t # "obj" THEN JArr(<<>>)
    ELSE IF ~SortedSet(languages).ok THEN JArr(<<>>)
    ELSE JArr(SortedSet(languages).v)

(***************************************************************************)
(* The calls the model makes.  audios: absent, not a list, empty, one       *)
(* track, three tracks out of order with a code twice, tracks without a     *)
(* code, codes of two types, a code that is a list.  subtitle: absent, not  *)
(* a list, three tracks out of order with a code twice, tracks without a    *)
(* code, codes of two types.  The payload arrives as JSON text or as        *)
(* structured data; it may also be no object, no JSON, empty or missing.    *)
(***************************************************************************)
AudiosParts ==
    {<<>>,
     [audios |-> JStr("eu")],
     [audios |-> JArr(<<>>)],
     [audios |-> JArr(<<JObj([code |-> JStr("eu")])>>)],
     [audios |-> JArr(<<JObj([code |-> JStr("fr")]),
                        JObj([code |-> JStr("eu"), label |-> JStr("l")]),
                        JObj([code |-> JStr("eu")])>>)],
     [audios |-> JArr(<<JObj([code |-> JStr("")]), JStr("eu"), JObj([label |-> JStr("l")])>>)],
     [audios |-> JArr(<<JObj([code |-> JNum(1)]), JObj([code |-> JStr("eu")])>>)],
     [audios |-> JArr(<<JObj([code |-> JArr(<<JStr("eu")>>)])>>)]}

SubtitleParts ==
    {<<>>,
     [subtitle |-> JStr("es")],
     [subtitle |-> JArr(<<JObj([language |-> JObj([code |-> JStr("es")])]),
                          JObj([language |-> JObj([code |-> JStr("en")])]),
                          JObj([language |-> JObj([code |-> JStr("es")])])>>)],
     [subtitle |-> JArr(<<JObj([language |-> JStr("es")]), JObj([file |-> JStr("f")]),
                          JStr("es"), JObj([language |-> JObj([code |-> JStr("")])])>>)],
     [subtitle |-> JArr(<<JObj([language |-> JObj([code |-> JNum(1)])]),
                          JObj([language |-> JObj([code |-> JStr("es")])])>>)]}

LanguagePayloads ==
    {JObj(a @@ b) : a \in AudiosParts, b \in SubtitleParts}
        \cup {JNull, JNum(7), JArr(<<>>), JArr(<<JStr("audios")>>), JStr("audios")}

LanguageItems ==
    {EmptyDict.v, [metadata |-> JStr("")]}
        \cup {[metadata |-> JText(m)] : m \in LanguagePayloads}
        \cup {[metadata |-> m] : m \in LanguagePayloads}

LanguageCalls == {[pc |-> "call", fn |-> "extract_languages", item |-> i] : i \in LanguageItems}

\* 'languages': self._extract_languages(item); no exception leaves the method.
extract_languages ==
    /\ ex.pc = "call" /\ ex.fn = "extract_languages"
    /\ ex' = [pc |-> "return", fn |-> ex.fn, item |-> ex.item,
              raised |-> FALSE, result |-> ExtractLanguages(ex.item)]
    /\ UNCHANGED <<storeVars, xp, mg>>

InitLanguages == EmptyStore /\ xp = NoCall /\ mg = NoCall /\ ex \in LanguageCalls

NextLanguages == extract_languages

SpecLanguages == InitLanguages /\ [][NextLanguages]_vars

\* --------------------------------------------------- date migration utility
(***************************************************************************)
(* A run of the date migration, window by window.  It is entered either    *)
(* through the script ("main": existence test, populate_dates with the     *)
(* script's batch size, verify_migration, exit status) or by a call of     *)
(* populate_dates(db_path, batch_size) ("call").  The run has its own       *)
(* connection.  The SELECT of a window is a read of its own; the write      *)
(* transaction opens at the first UPDATE of the window and ends at its     *)
(* commit.  Other connections write between two windows and between the    *)
(* SELECT of a window and its updates; an exception or an interruption in  *)
(* a window ends the process with that window uncommitted.                 *)
(***************************************************************************)
BatchSize500 == 500
MaxRuns == 2

Entries == {"main", "call"}
MigrationProfiles == {"bare", "movie", "episode", "nometa", "mixed"}
MaxMigrated == 2
MigrationCatalogs == UNION {[1..n -> MigrationProfiles] : n \in 0..MaxMigrated}

IdleRun(store) ==
    [pc |-> "idle", store |-> store, entry |-> "none", batch |-> 0, offset |-> 0,
     windows |-> 0, swept |-> FALSE, counts |-> NoCounts, exit |-> <<>>,
     before |-> <<>>, visited |-> <<>>, began |-> 0, read |-> <<>>, fetched |-> <<>>,
     trail |-> <<>>]

\* The run ends: how, with which exit status; it joins the runs made so far,
\* with the time on the store's clock at which it began and ended.
EndRun(m, pc, exit) ==
    [m EXCEPT !.pc = pc, !.exit = exit, !.fetched = <<>>,
              !.trail = Append(m.trail,
                  [entry |-> m.entry, store |-> m.store, batch |-> m.batch,
                   outcome |-> pc, exit |-> exit,
                   windows |-> m.windows, swept |-> m.swept, counts |-> m.counts,
                   before |-> m.before, offset |-> m.offset, visited |-> m.visited,
                   began |-> m.began, ended |-> now])]

\* An exception leaves populate_dates: the script reports it and exits with 1.
Fail(m) == IF m.entry = "main" THEN EndRun(m, "exit", <<1>>) ELSE EndRun(m, "raised", <<>>)

\* KeyboardInterrupt: the script exits with 130.
Interrupted(m) ==
    IF m.entry = "main" THEN EndRun(m, "exit", <<130>>) ELSE EndRun(m, "interrupted", <<>>)

Finished(m) == m.pc \in {"exit", "returned", "raised", "interrupted"}

\* The script up to the loop of populate_dates: Path(db_path).exists(), then the
\* connection and the two COUNT queries, the second of which names the date
\* columns: on a table without them it raises OperationalError.  A call on a
\* missing file creates an empty file and fails on it.
run_begin(entry, batch) ==
    LET m == [mg EXCEPT !.pc = "window", !.entry = entry, !.batch = batch, !.offset = 0,
                        !.windows = 0, !.swept = FALSE, !.counts = NoCounts, !.exit = <<>>,
                        !.before = content, !.visited = <<>>, !.began = now + 1] IN
    /\ now < MaxClock
    /\ mg.pc = "idle" \/ Finished(mg)
    /\ Len(mg.trail) < MaxRuns
    /\ entry = "main" => batch = BatchSize500
    /\ mg' = IF mg.store = "missing"
             THEN IF entry = "main" THEN EndRun(m, "exit", <<1>>)
                  ELSE [EndRun(m, "raised", <<>>) EXCEPT !.store = "legacy"]
             ELSE IF ~(DateColumns \subseteq schema) THEN Fail(m)
             ELSE m
    /\ now' = now + 1
    /\ UNCHANGED <<content, history, contentSeq, lastInsertRowid, last, upserted, schema,
                   ex, xp>>

\* The SELECT of a turn of the while loop, on a window that is not empty.
run_select ==
    /\ mg.pc = "window" /\ mg.offset < Len(content)
    /\ mg' = [mg EXCEPT !.pc = "update",
                        !.fetched = FetchWindow(content, mg.offset, mg.batch)]
    /\ UNCHANGED <<storeVars, ex, xp>>

\* The ids of the rows the for loop takes from the fetched window: all of
\* them, or those up to the first row that raises out of the loop.
LastTaken(rows) ==
    IF \E j \in 1..Len(rows) : ProcessRow(rows[j]).kind = "raise"
    THEN CHOOSE j \in 1..Len(rows) : /\ ProcessRow(rows[j]).kind = "raise"
                                    /\ \A k \in 1..(j - 1) : ProcessRow(rows[k]).kind # "raise"
    ELSE Len(rows)

Taken(rows) == [k \in 1..LastTaken(rows) |-> rows[k].id]

\* A turn of the loop whose commit is missing.
run_windowUncommitted ==
    LET w == ProcessBatch(content, mg.fetched, 1, mg.counts) IN
    /\ mg.pc = "update"
    /\ mg' = IF w.raised
             THEN Fail([mg EXCEPT !.visited = mg.visited \o Taken(mg.fetched)])
             ELSE [mg EXCEPT !.pc = "window", !.fetched = <<>>,
                             !.offset = mg.offset + mg.batch,
                             !.windows = mg.windows + 1, !.counts = w.counts,
                             !.visited = mg.visited \o Taken(mg.fetched)]
    /\ UNCHANGED <<storeVars, ex, xp>>

\* The rest of the turn: the for loop over the fetched rows, then the commit.
run_window ==
    LET w == ProcessBatch(content, mg.fetched, 1, mg.counts) IN
    /\ mg.pc = "update"
    /\ IF w.raised
       THEN /\ mg' = Fail([mg EXCEPT !.visited = mg.visited \o Taken(mg.fetched)])
            /\ UNCHANGED content
       ELSE /\ content' = w.content
            /\ mg' = [mg EXCEPT !.pc = "window", !.fetched = <<>>,
                                !.offset = mg.offset + mg.batch,
                                !.windows = mg.windows + 1, !.counts = w.counts,
                                !.visited = mg.visited \o Taken(mg.fetched)]
    /\ UNCHANGED <<history, contentSeq, lastInsertRowid, now, last, upserted, schema, ex, xp>>

\* The empty window: the loop breaks and populate_dates returns its counters.
run_return ==
    /\ mg.pc = "window" /\ mg.offset >= Len(content)
    /\ mg' = IF mg.entry = "main" THEN [mg EXCEPT !.pc = "verify", !.swept = TRUE]
             ELSE EndRun([mg EXCEPT !.swept = TRUE], "returned", <<>>)
    /\ UNCHANGED <<storeVars, ex, xp>>

\* verify_migration: ok = FALSE when it raises; the percentages divide by the
\* number of rows.
VerifyMigration(c) ==
    IF Len(c) = 0 THEN [ok |-> FALSE, v |-> FALSE] ELSE [ok |-> TRUE, v |-> TRUE]

\* verify_migration and the exit status of the script.
run_verify ==
    /\ mg.pc = "verify"
    /\ mg' = IF ~VerifyMigration(content).ok THEN Fail(mg)
             ELSE IF mg.counts.errors > 0 THEN EndRun(mg, "exit", <<1>>)
             ELSE EndRun(mg, "exit", <<0>>)
    /\ UNCHANGED <<storeVars, ex, xp>>

\* The user interrupts the process; the open window is not committed.
run_interrupt ==
    /\ mg.pc \in {"window", "update", "verify"}
    /\ mg' = Interrupted(mg)
    /\ UNCHANGED <<storeVars, ex, xp>>

InitMigrate ==
    /\ ex = NoCall /\ xp = NoCall
    /\ \E ps \in MigrationCatalogs, store \in Stores :
          /\ store = "missing" => Len(ps) = 0
          /\ StoreFile(ps, store)
          /\ mg = IdleRun(store)

NextMigrate ==
    \/ \E entry \in Entries, batch \in BatchSizes \cup {BatchSize500} : run_begin(entry, batch)
    \/ run_select
    \/ run_window
    \/ run_return
    \/ run_verify
    \/ run_interrupt

SpecMigrate == InitMigrate /\ [][NextMigrate]_vars

\* ------------------------------------------------- the store and its clients
(***************************************************************************)
(* The store from its creation on: the crawler's connection upserts items  *)
(* and records checks, a client opens the store again, statement by        *)
(* statement, and populate_dates runs on a connection of its own, window   *)
(* by window.  The store is the one ContentDatabase creates or one that    *)
(* has the date columns.                                                   *)
(***************************************************************************)
InitStore ==
    /\ ExporterIdle
    /\ \E store \in {"legacy", "current"} : StoreFile(<<>>, store) /\ mg = IdleRun(store)

\* Beside the crawler the backfill runs in windows of one row, which commits
\* after every row.
StoreBatchSizes == {1}

\* The items the crawler stores beside them: an item with its slug only, a
\* restricted movie with a date in its payload, an accessible episode with an
\* empty genre list.
StoreProfiles == {"bare", "movie", "episode"}
StoreObservations == {Observation(p, s) : p \in StoreProfiles, s \in Slugs}

\* The item whose checks are recorded, in the catalog or not yet in it.
CheckedSlugs == {"x"}

NextStore ==
    \/ \E o \in StoreObservations : upsert_content(o)
    \/ \E s \in CheckedSlugs, r \in CheckResults : add_check_history(s, r)
    \/ create_begin
    \/ create_statement
    \/ \E b \in StoreBatchSizes : run_begin("call", b)
    \/ run_select
    \/ run_window
    \/ run_return

Spec == InitStore /\ [][NextStore]_vars

\* The store while the dashboard asks for its statistics and the crawler, on
\* its own connection, upserts items.
StatisticsProfiles == {"bare", "movie", "episode"}

InitStatistics == ExporterIdle /\ mg = NoCall /\ StoreFile(<<>>, "legacy")

NextStatistics ==
    \/ \E profile \in StatisticsProfiles, s \in Slugs : upsert_content(Observation(profile, s))
    \/ statistics_begin
    \/ statistics_select
    \/ statistics_return

SpecStatistics == InitStatistics /\ [][NextStatistics]_vars

\* ------------------------------------------------------ season normalization
(***************************************************************************)
(* migrate_season_normalized.py: for a store file that exists, main()      *)
(* opens it through ContentDatabase and counts its rows with three SELECT  *)
(* statements, the first of which names season_number_normalized, a column *)
(* that _create_tables does not create and no statement of the program     *)
(* writes.                                                                 *)
(***************************************************************************)
Normalized(row) == DictGet(row, "season_number_normalized", JNull)

\* SELECT COUNT(*) FROM content WHERE ...
HasNormalized(row) == Normalized(row) # JNull
IsEpisode(row) == row.type = JStr("episode")
NormalizedCount(c) == Cardinality({i \in 1..Len(c) : HasNormalized(c[i])})
TotalEpisodes(c) == Cardinality({i \in 1..Len(c) : IsEpisode(c[i])})
TotalContent(c) == Len(c)

\* The record of a pass of main() over a store file.
SeasonRun(m, outcome) ==
    [m EXCEPT !.pc = "done", !.read = <<>>,
              !.trail = Append(m.trail,
                  IF outcome = "migrated"
                  THEN [outcome |-> outcome, before |-> m.before, began |-> m.began,
                        normalized_count |-> m.read[1], total_episodes |-> m.read[2],
                        total_content |-> m.read[3]]
                  ELSE [outcome |-> outcome, before |-> m.before, began |-> m.began])]

\* main() for one store file up to its first SELECT: a missing file is skipped;
\* an existing one is opened on a connection of its own.  The file has every
\* object of the schema, so that none of the CREATE ... IF NOT EXISTS statements
\* of _create_tables changes it.
season_open ==
    LET m == [mg EXCEPT !.before = content, !.began = now, !.read = <<>>] IN
    /\ mg.pc \in {"idle", "done"}
    /\ Len(mg.trail) < MaxRuns
    /\ mg' = IF mg.store = "missing" THEN SeasonRun(m, "skipped")
             ELSE [m EXCEPT !.pc = "count"]
    /\ UNCHANGED <<storeVars, ex, xp>>

\* The SELECT COUNT statements of main(), one at a time: the rows with a
\* normalized season number, the episodes, the rows.  On a table without the
\* column the first raises OperationalError, which main() catches and prints.
SeasonCount(c, k) ==
    CASE k = 1 -> NormalizedCount(c)
      [] k = 2 -> TotalEpisodes(c)
      [] k = 3 -> TotalContent(c)

season_count ==
    LET k == Len(mg.read) + 1
        m == [mg EXCEPT !.read = Append(mg.read, SeasonCount(content, k))] IN
    /\ mg.pc = "count"
    /\ mg' = IF "season_number_normalized" \notin schema THEN SeasonRun(mg, "error")
             ELSE IF k = 3 THEN SeasonRun(m, "migrated")
             ELSE m
    /\ UNCHANGED <<storeVars, ex, xp>>

\* Episodes of two series in seasons 1, 2 and 5, and a movie.
ObsSeason(s, series, season) ==
    [slug |-> JStr(s), title |-> JStr("t2"), type |-> JStr("episode"),
     series_slug |-> JStr(series), series_title |-> JStr("Ser"),
     season_number |-> JNum(season), episode_number |-> JNum(1),
     metadata |-> EmptyDict]

SeasonProfiles == {"s1", "s2", "s5", "other5", "bare"}

SeasonObservation(profile, s) ==
    CASE profile = "s1" -> ObsSeason(s, "ser", 1)
      [] profile = "s2" -> ObsSeason(s, "ser", 2)
      [] profile = "s5" -> ObsSeason(s, "ser", 5)
      [] profile = "other5" -> ObsSeason(s, "ser2", 5)
      [] profile = "bare" -> ObsBare(s)

RECURSIVE SeasonCatalogOf(_)
SeasonCatalogOf(profiles) ==
    IF Len(profiles) = 0 THEN <<>>
    ELSE LET n == Len(profiles) IN
         UpsertRows(SeasonCatalogOf(SubSeq(profiles, 1, n - 1)),
                    SeasonObservation(profiles[n], SlugNames[n]), n, n - 1)

SeasonCatalogs == UNION {[1..n -> SeasonProfiles] : n \in 0..(MaxRows - 1)}

\* A store that holds up to MaxRows items after one more upsert.  In a
\* store that has the column no row has a value for it.
InitSeasons ==
    /\ ex = NoCall /\ xp = NoCall
    /\ \E ps \in SeasonCatalogs, store \in SeasonStores :
          /\ store = "missing" => Len(ps) = 0
          /\ content = AddColumns(SeasonCatalogOf(ps), SchemaOf(store) \cap AddedColumns)
          /\ history = <<>>
          /\ schema = SchemaOf(store)
          /\ contentSeq = Len(ps) /\ lastInsertRowid = Len(ps)
          /\ now = MaxClock - 1
          /\ last = Op("init", JNull, JNull)
          /\ upserted = {SlugNames[i] : i \in 1..Len(ps)}
          /\ mg = IdleRun(store)

\* The crawler records an item in the store, new or seen before.
upsert_episode(p, i) ==
    /\ mg.store # "missing"
    /\ upsert_content(SeasonObservation(p, SlugNames[i]))

NextSeasons ==
    \/ season_open
    \/ season_count
    \/ \E p \in SeasonProfiles, i \in 1..MaxRows : upsert_episode(p, i)

SpecSeasons == InitSeasons /\ [][NextSeasons]_vars

\* ----------------------------------------------------------- opening a store
(***************************************************************************)
(* The files a store is opened on: a new file, and files written earlier,   *)
(* by this version or by one that had fewer tables or indexes: any of the   *)
(* two tables and, on a table that exists, any of its indexes.  A table     *)
(* that exists holds no row, one row or two rows.  While a client opens the *)
(* file, statement by statement, the crawler writes to the tables that      *)
(* exist.                                                                   *)
(***************************************************************************)
SchemaStates ==
    {T \cup I : T \in SUBSET Tables,
                I \in SUBSET (IndexesOn("content") \cup IndexesOn("check_history"))}
        \ {s \in SUBSET SchemaObjects :
              \E t \in Tables : t \notin s /\ IndexesOn(t) \cap s # {}}

StoredCatalogs == {<<>>, <<"movie">>, <<"movie", "episode">>}

StoredHistories ==
    {<<>>,
     AddHistoryRows(<<>>, "x", [is_geo_restricted |-> JBool(TRUE), status_code |-> JNum(403)], 0),
     AddHistoryRows(AddHistoryRows(<<>>, "x", [error |-> JStr("timeout")], 0),
                    "y", [is_geo_restricted |-> JBool(TRUE), status_code |-> JNum(403)], 0)}

InitSchema ==
    /\ ex = NoCall /\ xp = NoCall /\ mg = NoCall
    /\ schema \in SchemaStates
    /\ \E ps \in StoredCatalogs :
          /\ "content" \notin schema => Len(ps) = 0
          /\ content = CatalogOf(ps)
          /\ contentSeq = Len(ps)
          /\ upserted = {SlugNames[i] : i \in 1..Len(ps)}
    /\ \E h \in StoredHistories :
          /\ "check_history" \notin schema => Len(h) = 0
          /\ history = h
    /\ lastInsertRowid = 0
    /\ now = 0
    /\ last = Op("init", JNull, JNull)

\* The crawler, on its own connection, records an item or a check of it; on a
\* file without the table the statement raises and nothing is written.
store_item(profile) ==
    /\ "content" \in schema
    /\ upsert_content(Observation(profile, "x"))

store_check(r) ==
    /\ "check_history" \in schema
    /\ add_check_history("x", r)

NextSchema ==
    \/ create_begin
    \/ create_statement
    \/ \E profile \in {"movie", "episode"} : store_item(profile)
    \/ \E r \in CheckResults : store_check(r)

SpecSchema == InitSchema /\ [][NextSchema]_vars

\* ------------------------------------------------ payloads of the backfill
(***************************************************************************)
(* The payloads the date backfill is run on: every combination of           *)
(*   available_until  absent, a date, the empty string;                     *)
(*   date_created     absent, a date, the empty string;                     *)
(*   images           absent, a list without dates, a list holding a        *)
(*                    string, an entry without date and two dated entries   *)
(*                    the later of which comes first;                       *)
(* and two payloads the UPDATE cannot be made from: None (stored as the     *)
(* text null) and an available_until that is a list.                        *)
(***************************************************************************)
AvailableUntilParts == {<<>>, [available_until |-> JStr("d2")], [available_until |-> JStr("")]}
DateCreatedParts == {<<>>, [date_created |-> JStr("d3")], [date_created |-> JStr("")]}
ImagesParts ==
    {<<>>,
     [images |-> JArr(<<JObj([file |-> JStr("a.jpg")])>>)],
     [images |-> JArr(<<JStr("d0"), JObj([date_created |-> JStr("d2")]),
                        JObj([file |-> JStr("a.jpg")]),
                        JObj([date_created |-> JStr("d1")])>>)]}

DatePayloads ==
    {JObj(a @@ d @@ i) : a \in AvailableUntilParts, d \in DateCreatedParts, i \in ImagesParts}
        \cup {JNull, JObj([available_until |-> JArr(<<JStr("d2")>>)])}

\* The observation of an item with that payload.
DatedObservation(s, payload) ==
    [slug |-> JStr(s), title |-> JStr("t1"), type |-> JStr("movie"), metadata |-> payload]

MaxDated == 2
DatedCatalogs == UNION {[1..n -> DatePayloads] : n \in 0..MaxDated}

RECURSIVE DatedCatalogOf(_)
DatedCatalogOf(payloads) ==
    IF Len(payloads) = 0 THEN <<>>
    ELSE LET n == Len(payloads) IN
         UpsertRows(DatedCatalogOf(SubSeq(payloads, 1, n - 1)),
                    DatedObservation(SlugNames[n], payloads[n]), n, 0)

\* A store of up to MaxDated items, none of which has been through the backfill.
InitDates ==
    /\ ex = NoCall /\ xp = NoCall /\ mg = IdleRun("current")
    /\ \E ps \in DatedCatalogs :
          /\ content = AddColumns(DatedCatalogOf(ps), DateColumns)
          /\ history = <<>>
          /\ schema = SchemaOf("current")
          /\ contentSeq = Len(ps) /\ lastInsertRowid = Len(ps)
          /\ now = 0
          /\ last = Op("init", JNull, JNull)
          /\ upserted = {SlugNames[i] : i \in 1..Len(ps)}

NextDates ==
    \/ \E b \in BatchSizes : run_begin("call", b)
    \/ run_select
    \/ run_window
    \/ run_return

SpecDates == InitDates /\ [][NextDates]_vars

\* ------------------------------------------------------- claims on the store
\* What an observation says a column should hold: the value itself (a bool as
\* 0 / 1), the genre list and the payload as JSON text, an absent or None genre
\* list as NULL, and the defaults 'unknown' and {} for an absent type or payload.
ObservedValue(o, c) ==
    CASE c = "genres" ->
            IF DictGet(o, "genres", JNull) = JNull THEN JNull ELSE JsonDumps(o.genres)
      [] c = "metadata" -> JsonDumps(DictGet(o, "metadata", EmptyDict))
      [] c = "type" -> DictGet(o, "type", JStr("unknown"))
      [] OTHER -> SqlBind(DictGet(o, c, JNull))

RowsOf(c, s) == {i \in 1..Len(c) : c[i].slug = JStr(s)}

\* The step is a call of the operation op on the crawler's connection.
StoreStep(op) == last'.op = op /\ now' = now + 1 /\ mg' = mg /\ ex' = ex

\* C1: a repeat upsert of a slug leaves exactly one row for it, every mutable
\* column holding the second observation's value (also where that is null), and
\* the creation timestamp of the first upsert.
C1_RepeatUpsertOverwrites ==
    [][(StoreStep("upsert_content") /\ RowOf(content, last'.arg.slug.v) # 0) =>
        LET o == last'.arg
            old == content[RowOf(content, o.slug.v)]
            new == content'[RowOf(content', o.slug.v)] IN
        /\ Cardinality(RowsOf(content', o.slug.v)) = 1
        /\ \A c \in MutableColumns : new[c] = ObservedValue(o, c)
        /\ new.created_at = old.created_at]_vars

\* C2: upsert returns the id of the row that holds the observation's slug, on
\* insert and on update alike.
C2_UpsertReturnsRowId ==
    last.op = "upsert_content" =>
        last.ret = JNum(content[RowOf(content, last.arg.slug.v)].id)

\* C3: every slug upserted so far identifies exactly one row, and there are no
\* other rows: the row count is the number of distinct slugs upserted.
C3_OneRowPerSlug ==
    /\ Len(content) = Cardinality(upserted)
    /\ \A s \in upserted : Cardinality(RowsOf(content, s)) = 1

\* C3 witness: two slugs in the catalog, one of them upserted again, and a
\* backfill run that has committed a window.
C3_Witness ==
    /\ Len(content) = 2
    /\ contentSeq >= 3
    /\ mg.pc = "returned" /\ mg.windows >= 1

\* C4: an observation without a genre list is stored with genres NULL, one
\* with an empty genre list is stored as the empty JSON array.
C4_EmptyGenresDistinguished ==
    last.op = "upsert_content" =>
        LET o == last.arg
            row == content[RowOf(content, o.slug.v)] IN
        /\ "genres" \notin DOMAIN o => row.genres = JNull
        /\ ("genres" \in DOMAIN o /\ o.genres = JArr(<<>>)) =>
               row.genres = JsonDumps(JArr(<<>>))

\* C5: add_check_history appends exactly one row with the slug and outcome and
\* leaves the catalog alone; every other operation leaves the history as it is.
C5_HistoryAppendOnly ==
    [][/\ StoreStep("add_check_history") =>
            /\ Len(history') = Len(history) + 1
            /\ SubSeq(history', 1, Len(history)) = history
            /\ history'[Len(history')].slug = last'.arg.slug
            /\ history'[Len(history')].was_restricted =
                   SqlBind(DictGet(last'.arg.result, "is_geo_restricted", JNull))
            /\ history'[Len(history')].status_code =
                   DictGet(last'.arg.result, "status_code", JNull)
            /\ history'[Len(history')].error = DictGet(last'.arg.result, "error", JNull)
            /\ content' = content
       /\ ~StoreStep("add_check_history") => history' = history]_vars

\* C5 witness: a second check recorded on a catalog that holds a row.
C5_Witness ==
    /\ Len(history) = 2
    /\ Len(content) >= 1
    /\ last.op = "add_check_history"

\* C6: the statistics returned for a catalog state (no other connection wrote
\* while they were read) are the row count, the rows per type, the rows whose
\* flag is true, false and null (summing to the total), 0 per cent for an empty
\* catalog, and the latest last-checked timestamp (null for an empty catalog).
C6_Statistics ==
    (ex.pc = "return" /\ ex.fn = "get_statistics" /\ ex.since = now) =>
        LET st == ex.result
            rows == 1..Len(content)
            flagged(f) == {i \in rows : content[i].is_geo_restricted = f} IN
        /\ st.total_content = Len(content)
        /\ \A i \in rows : content[i].type.v \in DOMAIN st.by_type
        /\ \A ty \in DOMAIN st.by_type :
               /\ st.by_type[ty] = Cardinality({i \in rows : content[i].type.v = ty})
               /\ st.by_type[ty] > 0
        /\ st.geo_restricted_count = Cardinality(flagged(JNum(1)))
        /\ st.accessible_count = Cardinality(flagged(JNum(0)))
        /\ st.unknown_count = Cardinality(flagged(JNull))
        /\ st.geo_restricted_count + st.accessible_count + st.unknown_count
               = st.total_content
        /\ st.total_content = 0 => st.geo_restricted_percentage.num = 0
        /\ st.total_content > 0 =>
               st.geo_restricted_percentage
                   = [num |-> 100 * Cardinality(flagged(JNum(1))), den |-> Len(content)]
        /\ st.total_content = 0 <=> st.last_check = JNull
        /\ \A i \in rows : content[i].last_checked.v <= st.last_check.v
        /\ rows # {} => \E i \in rows : content[i].last_checked = st.last_check

\* C6 witness: the query run on a catalog with a restricted and an unknown row.
C6_Witness ==
    /\ ex.pc = "return" /\ ex.fn = "get_statistics" /\ ex.since = now
    /\ ex.result.geo_restricted_count = 1
    /\ ex.result.unknown_count = 1

\* Statistics read while another connection upserted: more restricted rows than
\* rows.
StatisticsTorn ==
    /\ ex.pc = "return" /\ ex.fn = "get_statistics"
    /\ ex.result.geo_restricted_count > ex.result.total_content

\* C10: a second date backfill in a row (no other connection wrote from the
\* start of the first run to the end of the second) reports zero updated rows.
C10_SecondRunUpdatesNothing ==
    \A k \in 1..(Len(mg.trail) - 1) :
        LET first == mg.trail[k]
            second == mg.trail[k + 1] IN
        (/\ first.outcome = "returned" /\ second.outcome = "returned"
         /\ second.ended = first.began + 1) =>
            second.counts.updated = 0

\* The dates the current payload of a row carries: null where it carries none.
DerivedDates(row) ==
    LET parsed == JsonLoads(row.metadata)
        isObj == Truthy(row.metadata) /\ parsed.ok /\ parsed.v.t = "obj"
        au == IF isObj THEN DictGet(parsed.v.v, "available_until", JNull) ELSE JNull
        pd == IF isObj /\ PublicationDate(parsed.v.v).ok
              THEN PublicationDate(parsed.v.v).v ELSE JNull IN
    [available_until |-> IF Truthy(au) THEN SqlBind(au) ELSE JNull,
     publication_date |-> IF Truthy(pd) THEN SqlBind(pd) ELSE JNull]

\* C13: after a completed backfill run (no other connection has written since
\* it began), whatever upserts came before it, the date columns of every row
\* are the dates its current payload carries.
C13_DerivedColumnsFollowPayload ==
    (mg.pc = "returned" /\ mg.began = now) =>
        \A i \in 1..Len(content) :
            /\ content[i].available_until = DerivedDates(content[i]).available_until
            /\ content[i].publication_date = DerivedDates(content[i]).publication_date

\* --------------------------------------------------- claims on the projector
\* What the path language says a path reaches: each segment looks its field up
\* in an object and then, if it carries an index, takes that element of a list.
RECURSIVE Resolve(_, _)
Resolve(value, segs) ==
    IF Len(segs) = 0 THEN [resolved |-> TRUE, v |-> value]
    ELSE IF value.t # "obj" \/ segs[1].name \notin DOMAIN value.v
         THEN [resolved |-> FALSE, v |-> JNull]
    ELSE LET field == value.v[segs[1].name]
             i == IF segs[1].index = "0" THEN 0 ELSE 5 IN
         IF segs[1].index = NoIndex THEN Resolve(field, Tail(segs))
         ELSE IF field.t # "arr" \/ i >= Len(field.v) THEN [resolved |-> FALSE, v |-> JNull]
         ELSE Resolve(field.v[i + 1], Tail(segs))

\* The payload of a call as structured data, if it is structured data or
\* well-formed JSON text.
PayloadOf(item) ==
    IF item.metadata.t = "text" THEN [ok |-> TRUE, v |-> item.metadata.v]
    ELSE IF item.metadata.t \in {"str", "null"} THEN [ok |-> FALSE, v |-> JNull]
    ELSE [ok |-> TRUE, v |-> item.metadata]

Reached(call) ==
    IF PayloadOf(call.item).ok THEN Resolve(PayloadOf(call.item).v, call.segments)
    ELSE [resolved |-> FALSE, v |-> JNull]

\* C7: when the path cannot be resolved (missing key, non-container value,
\* index out of range, malformed payload) extract returns the caller's default.
C7_UnresolvedGivesDefault ==
    (ex.pc = "return" /\ ex.fn = "extract" /\ ~Reached(ex).resolved) =>
        ex.result = ex.default

\* C8: when the path resolves, whichever segment carries an index, extract
\* returns the value the walk reaches.
C8_ResolvedGivesValue ==
    (ex.pc = "return" /\ ex.fn = "extract" /\ Reached(ex).resolved) =>
        ex.result = Reached(ex).v

\* ---------------------------------------------------- claims on the exporter
\* The records and commas written between the brackets of the content array.
ArrayBody(out) == SubSeq(out, 4, Len(out) - 2)

\* A JSON array body: nothing, or records separated by single commas.
WellSeparated(body) ==
    \/ Len(body) = 0
    \/ /\ Len(body) % 2 = 1
       /\ \A i \in 1..Len(body) : body[i].tok = (IF i % 2 = 1 THEN "item" ELSE ",")

\* The slugs of the rows the pass visits whose projection succeeds, in order.
RECURSIVE Projected(_, _)
Projected(kind, rows) ==
    IF Len(rows) = 0 THEN <<>>
    ELSE IF Project(kind, rows[1]).ok THEN <<rows[1].slug>> \o Projected(kind, Tail(rows))
    ELSE Projected(kind, Tail(rows))

RECURSIVE ItemSlugs(_)
ItemSlugs(body) ==
    IF Len(body) = 0 THEN <<>>
    ELSE IF body[1].tok = "item" THEN <<body[1].v.slug>> \o ItemSlugs(Tail(body))
    ELSE ItemSlugs(Tail(body))

\* C9: whichever records fail, the finished document is valid JSON: the array
\* holds exactly the records that projected, separated by single commas.
C9_SkippedRecordKeepsJsonValid ==
    xp.pc = "done" =>
        /\ WellSeparated(ArrayBody(xp.out))
        /\ ItemSlugs(ArrayBody(xp.out)) = Projected(xp.kind, xp.rows)

\* The records a finished pass wrote, and the rows it visited.
Written(x) == ItemSlugs(ArrayBody(x.out))
Visited(x) == x.rows
Skipped(x) == {i \in 1..Len(Visited(x)) : ~Project(x.kind, Visited(x)[i]).ok}

\* C19: the count an export returns is the number of records in the content
\* array it wrote: the rows visited less the records skipped for a failure.
C19_ItemsExportedIsWritten ==
    xp.pc = "done" =>
        /\ xp.items_exported = Len(Written(xp))
        /\ xp.items_exported = Len(Visited(xp)) - Cardinality(Skipped(xp))

\* A pass that wrote records and skipped records.
C19_Witness ==
    /\ xp.pc = "done"
    /\ xp.items_exported >= 1
    /\ Cardinality(Skipped(xp)) >= 1

\* The object, its header, the array and both closings around the records.
ValidDocument(out) ==
    /\ Len(out) >= 5
    /\ out[1].tok = "{" /\ out[2].tok = "header" /\ out[3].tok = "["
    /\ out[Len(out) - 1].tok = "]" /\ out[Len(out)].tok = "}"
    /\ WellSeparated(ArrayBody(out))

WasInterrupted(r) == r.outcome = "interrupted" \/ r.exit = <<130>>

\* The rows a run had gone through when it committed its last window.
Committed(r) == Min(r.windows * r.batch, Len(r.before))

\* C11: a run interrupted after N committed windows leaves the updates of those
\* windows in the store (and every later row as it was) for the next run to
\* start from, and a complete run
\* made next ends in the store a single uninterrupted run would have produced
\* from the original store, whatever the batch sizes.
C11_InterruptedRunResumable ==
    (Len(mg.trail) >= 1 /\ WasInterrupted(mg.trail[1])) =>
        LET first == mg.trail[1]
            after == IF Len(mg.trail) >= 2 THEN mg.trail[2].before
                     ELSE IF Finished(mg) THEN content ELSE mg.before IN
        /\ Len(after) = Len(first.before)
        /\ \A i \in 1..Len(after) :
              after[i] = IF i <= Committed(first)
                         THEN UpdateRow(first.before[i], ProcessRow(first.before[i]))
                         ELSE first.before[i]
        /\ (Len(mg.trail) = 2 /\ mg.trail[2].swept) =>
              \A b \in BatchSizes \cup {BatchSize500} :
                  content = PopulateDates(first.before, b).content

\* An interrupted run that had committed updates and left rows unvisited, then a
\* complete run.
C11_Witness ==
    /\ Len(mg.trail) = 2
    /\ WasInterrupted(mg.trail[1]) /\ mg.trail[1].windows >= 1
    /\ Committed(mg.trail[1]) < Len(mg.trail[1].before)
    /\ mg.trail[2].before # mg.trail[1].before
    /\ mg.trail[2].swept
    /\ content # mg.trail[2].before

\* A stored payload the backfill cannot process: text that is not JSON, JSON
\* that is not an object, or an object whose dates cannot be derived.
Unprocessable(row) ==
    /\ Truthy(row.metadata)
    /\ \/ ~JsonLoads(row.metadata).ok
       \/ JsonLoads(row.metadata).v.t # "obj"
       \/ ~PublicationDate(JsonLoads(row.metadata).v.v).ok

RECURSIVE CountUnprocessable(_)
CountUnprocessable(c) ==
    IF Len(c) = 0 THEN 0
    ELSE (IF Unprocessable(c[1]) THEN 1 ELSE 0) + CountUnprocessable(Tail(c))

\* C12: on a store with the date columns, a run that nobody interrupts goes
\* through every window whatever the payloads hold, and its error counter is the
\* number of rows whose payload could not be processed.
C12_UnprocessableRowIsCounted ==
    \A k \in 1..Len(mg.trail) :
        (mg.store = "current" /\ ~WasInterrupted(mg.trail[k])) =>
            /\ mg.trail[k].swept
            /\ mg.trail[k].counts.errors = CountUnprocessable(mg.trail[k].before)

\* C18: the script exits with 130 when it is interrupted; otherwise with 0 when
\* the store has the date columns and no row produces a processing error, an
\* empty catalog included, and with 1 when the store file is missing, when the
\* date columns are missing or when a row produces a processing error.
C18_ExitStatus ==
    \A k \in 1..Len(mg.trail) :
        LET r == mg.trail[k] IN
        (r.entry = "main" /\ ~WasInterrupted(r)) =>
            r.exit = IF r.store = "current" /\ CountUnprocessable(r.before) = 0
                     THEN <<0>> ELSE <<1>>

\* ------------------------------------- claims on platforms and content URLs
Returned(fn) == ex.pc = "return" /\ ex.fn = fn

\* C14: whatever the platform value is, the normalized platform list has at
\* least one element, and it is ["primeran.eus"] when there is no platform
\* (no key, null, an empty string).
C14_PlatformListNeverEmpty ==
    Returned("parse_platform") =>
        /\ ex.result.t = "arr"
        /\ Len(ex.result.v) >= 1
        /\ ("platform" \notin DOMAIN ex.item \/ ex.item.platform \in {JNull, JStr("")})
              => ex.result = JArr(<<DefaultPlatform>>)

\* The URL map of the payload (empty when it carries none), the first listed
\* platform, and whether the map has a URL for it.
UrlMapOf(item) ==
    IF /\ "metadata" \in DOMAIN item
       /\ item.metadata.t = "text" /\ item.metadata.v.t = "obj"
       /\ "platform_urls" \in DOMAIN item.metadata.v.v
       /\ item.metadata.v.v.platform_urls.t = "obj"
    THEN item.metadata.v.v.platform_urls.v ELSE <<>>

FirstPlatform(item) ==
    IF Len(PlatformsOf(item).v) > 0 THEN PlatformsOf(item).v[1] ELSE DefaultPlatform

MapApplies(item) ==
    /\ Len(PlatformsOf(item).v) > 0
    /\ FirstPlatform(item).t = "str"
    /\ FirstPlatform(item).v \in DOMAIN UrlMapOf(item)

\* The pattern table.
IsSeries(item) == item.type \in {JStr("series"), JStr("Series")}
Linked(item) == "series_slug" \in DOMAIN item /\ item.series_slug.t = "str"
LinkedElsewhere(item) == Linked(item) /\ item.series_slug # item.slug

TableUrl(item) ==
    CASE FirstPlatform(item) = JStr("makusi.eus") /\ item.type = JStr("episode")
            -> Url("https://makusi.eus/ikusi/w/", item.slug)
      [] FirstPlatform(item) = JStr("makusi.eus") /\ item.type # JStr("episode")
            /\ (IsSeries(item) \/ Linked(item)) /\ LinkedElsewhere(item)
            -> Url("https://makusi.eus/ikusi/w/", item.slug)
      [] FirstPlatform(item) = JStr("makusi.eus") /\ item.type # JStr("episode")
            /\ (IsSeries(item) \/ Linked(item)) /\ ~LinkedElsewhere(item)
            -> Url("https://makusi.eus/ikusi/s/", item.slug)
      [] FirstPlatform(item) = JStr("makusi.eus") /\ item.type # JStr("episode")
            /\ ~(IsSeries(item) \/ Linked(item))
            -> Url("https://makusi.eus/ikusi/m/", item.slug)
      [] FirstPlatform(item) = JStr("etbon.eus") /\ item.type = JStr("live")
            -> Url("https://etbon.eus/ch/", item.slug)
      [] FirstPlatform(item) = JStr("etbon.eus") /\ IsSeries(item)
            -> Url("https://etbon.eus/s/", item.slug)
      [] FirstPlatform(item) = JStr("etbon.eus") /\ item.type # JStr("live") /\ ~IsSeries(item)
            -> Url("https://etbon.eus/m/", item.slug)
      [] FirstPlatform(item) \notin {JStr("makusi.eus"), JStr("etbon.eus")}
            -> Url("https://primeran.eus/m/", item.slug)

\* C15: when the URL map of the payload has no URL for the first platform, the
\* content URL is the one the pattern table gives for the first platform, the
\* type, the slug and the series linkage.
C15_PatternTable ==
    (Returned("get_content_url") /\ ~MapApplies(ex.item)) =>
        ~ex.raised /\ ex.result = TableUrl(ex.item)

\* A linked series of makusi.eus that is itself, and a payload whose URL map
\* names other platforms only.
C15_Witness ==
    /\ Returned("get_content_url") /\ ~MapApplies(ex.item)
    /\ DOMAIN UrlMapOf(ex.item) # {}
    /\ FirstPlatform(ex.item) = JStr("makusi.eus")
    /\ Linked(ex.item) /\ ~LinkedElsewhere(ex.item)
    /\ ex.result = Url("https://makusi.eus/ikusi/s/", ex.item.slug)

\* C16: when the URL map of the payload has a URL for the first listed platform
\* the content URL is that URL as it stands, whatever the type, the slug and
\* the linkage; otherwise it is a URL built from a pattern.
C16_MappedUrlVerbatim ==
    Returned("get_content_url") =>
        /\ ~ex.raised
        /\ IF MapApplies(ex.item)
           THEN ex.result = UrlMapOf(ex.item)[FirstPlatform(ex.item).v]
           ELSE ex.result.t = "url" /\ ex.result.slug = ex.item.slug

\* An episode of a JSON-encoded platform list whose first platform is mapped.
C16_Witness ==
    /\ Returned("get_content_url") /\ MapApplies(ex.item)
    /\ ex.item.platform.t = "text"
    /\ ex.item.type = JStr("episode")
    /\ ex.result = JStr("u1")

\* ------------------------------------------- claims on season normalization
\* The number of distinct raw season numbers of the series of row i that are
\* not above its own.
SeasonRank(c, i) ==
    Cardinality({c[j].season_number.v :
                    j \in {k \in 1..Len(c) : /\ c[k].type = JStr("episode")
                                            /\ c[k].series_slug = c[i].series_slug
                                            /\ c[k].season_number.t = "num"
                                            /\ c[k].season_number.v <= c[i].season_number.v}})

Columns(row) == [k \in DOMAIN row \ {"season_number_normalized"} |-> row[k]]

\* The episodes the normalization is to number: those of a series, with a raw
\* season number.
SeasonEpisode(row) ==
    row.type = JStr("episode") /\ row.series_slug # JNull /\ row.season_number.t = "num"

\* The season migration has opened the store in this step.
SeasonOpened == mg.pc # "count" /\ mg'.pc = "count"

\* C17: when the season migration opens a store, every episode of a series that
\* had no normalized season number is given the position of its raw season
\* number among the distinct raw season numbers of the series in ascending
\* order (1 for the lowest), and a row that had one is left as it was.
C17_SeasonsNumberedInOrder ==
    [][SeasonOpened =>
          /\ Len(content') = Len(content)
          /\ \A i \in 1..Len(content) :
                /\ Columns(content'[i]) = Columns(content[i])
                /\ Normalized(content'[i]) =
                      IF Normalized(content[i]) # JNull THEN Normalized(content[i])
                      ELSE IF SeasonEpisode(content[i]) THEN JNum(SeasonRank(content, i))
                      ELSE JNull]_vars

\* A pass of main() over a store file changes no row of it.
SeasonMigrationNumbersNothing ==
    [][mg' # mg => content' = content]_vars

\* A pass over a store that has the column ends with an episode that has no
\* normalized season number.
SeasonPassLeavesUnnumbered ==
    /\ mg.pc = "done" /\ Len(mg.trail) >= 1
    /\ mg.trail[Len(mg.trail)].outcome = "migrated"
    /\ mg.trail[Len(mg.trail)].normalized_count < mg.trail[Len(mg.trail)].total_episodes
    /\ \E i \in 1..Len(content) : SeasonEpisode(content[i]) /\ Normalized(content[i]) = JNull

\* A pass over a store without the column ends in the error main() catches.
SeasonPassRaised ==
    /\ mg.pc = "done" /\ Len(mg.trail) >= 1
    /\ mg.trail[Len(mg.trail)].outcome = "error"
    /\ "season_number_normalized" \notin schema

\* An episode recorded between the counts of a pass: more rows than the pass
\* counted episodes among, though every row is an episode.
SeasonCountsTorn ==
    /\ mg.pc = "done" /\ Len(mg.trail) >= 1
    /\ mg.trail[Len(mg.trail)].outcome = "migrated"
    /\ mg.trail[Len(mg.trail)].total_content > mg.trail[Len(mg.trail)].total_episodes
    /\ \A i \in 1..Len(content) : IsEpisode(content[i])

\* ------------------------------------------------ claims on the date backfill
\* A date is found where the payload holds a non-empty string for it.
Found(v) == v.t = "str" /\ v.v # ""
DateField(v) == v.t \in {"null", "str"}

\* The entries of the payload's images list that are objects.
Assets(m) ==
    LET images == DictGet(m, "images", JArr(<<>>)) IN
    IF images.t # "arr" THEN {}
    ELSE {images.v[k].v : k \in {j \in 1..Len(images.v) : images.v[j].t = "obj"}}

\* A well-formed payload: JSON text of an object whose date fields, and those
\* of its images, are strings or null.
WellFormed(row) ==
    /\ row.metadata.t = "text" /\ row.metadata.v.t = "obj"
    /\ DateField(DictGet(row.metadata.v.v, "available_until", JNull))
    /\ DateField(DictGet(row.metadata.v.v, "date_created", JNull))
    /\ \A a \in Assets(row.metadata.v.v) : DateField(DictGet(a, "date_created", JNull))

PayloadAvailableUntil(row) == DictGet(row.metadata.v.v, "available_until", JNull)

AssetDates(row) ==
    {DictGet(a, "date_created", JNull).v :
        a \in {x \in Assets(row.metadata.v.v) : Found(DictGet(x, "date_created", JNull))}}

Earliest(dates) == CHOOSE d \in dates : \A e \in dates : StrRank(d) <= StrRank(e)

\* The payload-level creation date, else the earliest creation date of an asset,
\* else no date.
PayloadPublicationDate(row) ==
    LET own == DictGet(row.metadata.v.v, "date_created", JNull) IN
    IF Found(own) THEN own
    ELSE IF AssetDates(row) # {} THEN JStr(Earliest(AssetDates(row)))
    ELSE JNull

HasDate(row) == Found(PayloadAvailableUntil(row)) \/ Found(PayloadPublicationDate(row))

\* Two values of a date column agree: the same date, or both no date.
SameDate(a, b) == a = b \/ (~Found(a) /\ ~Found(b))

\* The rows of the window of `batch` rows that row i belongs to are all rows
\* the loop gets past, so that the window is committed.
WindowCommitted(c, i, batch) ==
    \A j \in 1..Min(((i - 1) \div batch + 1) * batch, Len(c)) : ProcessRow(c[j]).kind # "raise"

\* What a run does to a row: with a date in the payload, the two date columns
\* take the payload's dates and nothing else changes; without, the row is as it was.
DatesDerived(before, after) ==
    IF HasDate(before)
    THEN /\ after.available_until = PayloadAvailableUntil(before)
         /\ SameDate(after.publication_date, PayloadPublicationDate(before))
         /\ [after EXCEPT !.available_until = JNull, !.publication_date = JNull]
              = [before EXCEPT !.available_until = JNull, !.publication_date = JNull]
    ELSE after = before

\* A run over well-formed payloads reports as updated the rows with a date and
\* as skipped the rows without.
CountsReported(r) ==
    (\A i \in 1..Len(r.before) : WellFormed(r.before[i])) =>
        /\ r.outcome = "returned"
        /\ r.counts.updated = Cardinality({i \in 1..Len(r.before) : HasDate(r.before[i])})
        /\ r.counts.skipped = Cardinality({i \in 1..Len(r.before) : ~HasDate(r.before[i])})
        /\ r.counts.errors = 0

\* A run ends in this step; the record of it.
BackfillStep == Len(mg'.trail) = Len(mg.trail) + 1
EndedRun == mg'.trail[Len(mg'.trail)]

\* C21: a backfill run gives every row with a well-formed payload the payload's
\* available_until and, as publication_date, the payload's date_created if it
\* has one and the earliest date_created of its images otherwise; the row is
\* changed and counted as updated if and only if one of the two dates is found,
\* and is otherwise left as it was and counted as skipped.
C21_BackfillDerivesDates ==
    [][BackfillStep =>
        /\ \A i \in 1..Len(EndedRun.before) :
              WellFormed(EndedRun.before[i]) => DatesDerived(EndedRun.before[i], content'[i])
        /\ CountsReported(EndedRun)]_vars

\* The same for the rows of the windows the run commits.
BackfillDerivesDatesWhereCommitted ==
    [][BackfillStep =>
        /\ \A i \in 1..Len(EndedRun.before) :
              (/\ WellFormed(EndedRun.before[i])
               /\ WindowCommitted(EndedRun.before, i, EndedRun.batch)) =>
                  DatesDerived(EndedRun.before[i], content'[i])
        /\ CountsReported(EndedRun)]_vars

\* A run has given one row the earlier of its two image dates, although the later
\* one comes first in the list, and has skipped a row whose payload has no date.
ImageDateDerived ==
    /\ mg.pc = "returned"
    /\ mg.counts.updated = 1 /\ mg.counts.skipped = 1
    /\ \E i, j \in 1..Len(content) :
          /\ WellFormed(content[i]) /\ ~Found(PayloadAvailableUntil(content[i]))
          /\ ~Found(DictGet(content[i].metadata.v.v, "date_created", JNull))
          /\ AssetDates(content[i]) = {"d1", "d2"}
          /\ content[i].publication_date = JStr("d1")
          /\ content[i].available_until = JNull
          /\ WellFormed(content[j]) /\ ~HasDate(content[j])
          /\ content[j].publication_date = JNull /\ content[j].available_until = JNull

\* ---------------------------------------------------- claims on languages
\* The payload of the item when it is an object, as JSON text or structured.
HasObject(item) ==
    /\ "metadata" \in DOMAIN item
    /\ \/ item.metadata.t = "obj"
       \/ item.metadata.t = "text" /\ item.metadata.v.t = "obj"

ObjectOf(item) == IF item.metadata.t = "obj" THEN item.metadata.v ELSE item.metadata.v.v

\* The code values of the audio tracks and of the subtitle tracks of a payload.
TrackList(m, key) ==
    IF key \in DOMAIN m /\ m[key].t = "arr"
    THEN {m[key].v[k].v : k \in {j \in 1..Len(m[key].v) : m[key].v[j].t = "obj"}}
    ELSE {}

AudioCodeValues(m) == {DictGet(a, "code", JNull) : a \in TrackList(m, "audios")}

SubtitleCodeValues(m) ==
    {DictGet(sub.language.v, "code", JNull) :
        sub \in {x \in TrackList(m, "subtitle") :
                    "language" \in DOMAIN x /\ x.language.t = "obj"}}

\* Language codes are strings; a track may have none (null or empty).
CodesAreStrings(m) ==
    \A c \in AudioCodeValues(m) \cup SubtitleCodeValues(m) : c.t \in {"str", "null"}

CodesIn(values) == {c.v : c \in {x \in values : x.t = "str" /\ x.v # ""}}

PreferredCodes(m) ==
    IF CodesIn(AudioCodeValues(m)) # {} THEN CodesIn(AudioCodeValues(m))
    ELSE CodesIn(SubtitleCodeValues(m))

\* Each code once, in ascending order.
StrictlyAscending(list) ==
    /\ \A k \in 1..Len(list) : list[k].t = "str"
    /\ \A k \in 1..(Len(list) - 1) : CodeRank(list[k].v) < CodeRank(list[k + 1].v)

\* C22: _extract_languages never raises and returns a list; for a payload that
\* is missing, is not JSON or is not an object the list is empty; for an object
\* whose codes are strings it holds the codes of the audio tracks if there is
\* one, those of the subtitle tracks otherwise, each once, in ascending order.
C22_LanguagesPreferAudio ==
    Returned("extract_languages") =>
        /\ ~ex.raised /\ ex.result.t = "arr"
        /\ ~HasObject(ex.item) => ex.result = JArr(<<>>)
        /\ (HasObject(ex.item) /\ CodesAreStrings(ObjectOf(ex.item))) =>
              /\ {ex.result.v[k].v : k \in 1..Len(ex.result.v)} = PreferredCodes(ObjectOf(ex.item))
              /\ StrictlyAscending(ex.result.v)

\* A payload with audio tracks fr, eu, eu and subtitle tracks es, en, es gave eu, fr.
C22_Witness ==
    /\ Returned("extract_languages") /\ HasObject(ex.item)
    /\ CodesIn(AudioCodeValues(ObjectOf(ex.item))) = {"eu", "fr"}
    /\ CodesIn(SubtitleCodeValues(ObjectOf(ex.item))) = {"en", "es"}
    /\ ex.result = JArr(<<JStr("eu"), JStr("fr")>>)

\* A payload without audio codes and with subtitle tracks es, en, es gave en, es.
SubtitleFallbackTaken ==
    /\ Returned("extract_languages") /\ HasObject(ex.item)
    /\ "audios" \in DOMAIN ObjectOf(ex.item)
    /\ CodesIn(AudioCodeValues(ObjectOf(ex.item))) = {}
    /\ ex.result = JArr(<<JStr("en"), JStr("es")>>)

\* ------------------------------------------------------ claims on the schema
\* A statement of an open is run in this step.
OpenStep == ex' # ex /\ ex'.pc # "none" /\ ex'.fn = "create_tables"

\* C23: opening the store, whatever the file holds, however often it has been
\* opened and whatever other connections write meanwhile, changes no content
\* row and no history row and removes no object, leaves a file that has the two
\* tables and the five indexes as it is, and is done with the file holding the
\* two tables and the five indexes, every object found among them.
C23_OpeningKeepsTheStore ==
    [][OpenStep =>
        /\ content' = content
        /\ history' = history
        /\ schema \subseteq schema'
        /\ schema = SchemaObjects => schema' = schema
        /\ ex'.pc = "return" => (schema' = SchemaObjects /\ ex'.found \subseteq schema')]_vars

\* The store was opened on a file that had rows in both tables and lacked some
\* of the indexes: it has them all now, and the rows are there.
C23_Witness ==
    /\ Returned("create_tables")
    /\ Tables \subseteq ex.found /\ ex.found # SchemaObjects
    /\ schema = SchemaObjects
    /\ Len(content) = 2 /\ Len(history) = 2
    /\ content[1].metadata = JText(JObj([available_until |-> JStr("d2")]))
    /\ history[1].error = JStr("timeout")

\* An open has returned on a store that holds more rows than it held when the
\* open began: the crawler wrote between two of its statements.
WrittenDuringOpen ==
    /\ Returned("create_tables")
    /\ ex.found # SchemaObjects
    /\ Len(content) + Len(history) > ex.rows
    /\ last.op \in {"upsert_content", "add_check_history"}


\* The first window of the first run has written, to a row the crawler upserted
\* as an episode between the window's SELECT and its updates, the date of the
\* payload the row had when the window was read.
WindowWroteStaleDates ==
    /\ Len(mg.trail) = 0 /\ mg.pc = "window" /\ mg.windows = 1
    /\ \E i \in 1..Len(content) :
          /\ content[i].type = JStr("episode")
          /\ content[i].available_until = JStr("d2")
          /\ content[i].publication_date = JNull

\* ---------------------------------------------- claims on the backfill loop
Processed(counts) == counts.updated + counts.skipped + counts.errors
Ids(c) == [k \in 1..Len(c) |-> c[k].id]

\* C24: on a store with the date columns, after each committed window the three
\* counters add up to min(offset, total) and the rows visited are the first
\* min(offset, total) rows in id order, each once; a run that nobody interrupts
\* ends having visited every row once, in id order, with the counters adding up
\* to the total.
C24_LoopVisitsEveryRowOnce ==
    /\ (mg.pc \in {"window", "update", "verify"} /\ mg.store = "current") =>
          /\ Processed(mg.counts) = Min(mg.offset, Len(content))
          /\ mg.visited = SubSeq(Ids(content), 1, Min(mg.offset, Len(content)))
    /\ \A k \in 1..Len(mg.trail) :
          LET r == mg.trail[k] IN
          (r.store = "current" /\ ~WasInterrupted(r)) =>
              /\ r.swept
              /\ Processed(r.counts) = Len(r.before)
              /\ r.visited = Ids(r.before)

\* The same for the runs in which no row raises out of the loop.
LoopVisitsEveryRowOnceUnlessRaised ==
    /\ (mg.pc \in {"window", "update", "verify"} /\ mg.store = "current") =>
          /\ Processed(mg.counts) = Min(mg.offset, Len(content))
          /\ mg.visited = SubSeq(Ids(content), 1, Min(mg.offset, Len(content)))
    /\ \A k \in 1..Len(mg.trail) :
          LET r == mg.trail[k] IN
          (/\ r.store = "current" /\ ~WasInterrupted(r)
           /\ \A j \in 1..Len(r.before) : ProcessRow(r.before[j]).kind # "raise") =>
              /\ r.swept
              /\ Processed(r.counts) = Len(r.before)
              /\ r.visited = Ids(r.before)

\* Every turn of the loop moves the offset on; the loop is left once the offset
\* has reached the total, that is after at most total turns.
WindowAdvances ==
    [][/\ (mg.pc = "window" /\ mg'.pc = "update") => mg.offset < Len(content)
       /\ (mg.pc = "update" /\ mg'.pc = "window") => mg'.offset > mg.offset]_vars

\* A run of two windows of one row each has ended, both rows visited.
TwoWindowsSwept ==
    \E k \in 1..Len(mg.trail) :
        /\ mg.trail[k].batch = 1 /\ mg.trail[k].windows = 2 /\ mg.trail[k].swept
        /\ mg.trail[k].visited = <<1, 2>>
        /\ Processed(mg.trail[k].counts) = 2

\* ------------------------------------------ claims on the restricted export
\* The slugs of the rows of the catalog whose restriction flag is true.
RestrictedSlugs(c) == {c[i].slug : i \in {j \in 1..Len(c) : c[j].is_geo_restricted = JNum(1)}}
WrittenSlugs(x) == {Written(x)[i] : i \in 1..Len(Written(x))}

\* C25: in a finished restricted export during which nothing else wrote to the
\* store, the count of the header is the number of records in the content
\* array, every record written is a restricted row and every restricted row is
\* written, whichever records fail.
C25_GeoCountIsArrayLength ==
    (xp.pc = "done" /\ xp.kind = "geo" /\ xp.since = now) =>
        /\ xp.out[2].v.count = Len(Written(xp))
        /\ WrittenSlugs(xp) \subseteq RestrictedSlugs(content)
        /\ RestrictedSlugs(content) \subseteq WrittenSlugs(xp)

\* What holds whichever records fail: the count of the header is the number of
\* restricted rows, the records written are restricted rows, each written once,
\* and the restricted rows that are missing are those whose record failed.
GeoCountIsRestrictedRows ==
    (xp.pc = "done" /\ xp.kind = "geo" /\ xp.since = now) =>
        /\ xp.out[2].v.count = Cardinality(RestrictedSlugs(content))
        /\ xp.out[2].v.count = Len(Written(xp)) + Cardinality(Skipped(xp))
        /\ WrittenSlugs(xp) \subseteq RestrictedSlugs(content)
        /\ Cardinality(WrittenSlugs(xp)) = Len(Written(xp))
        /\ RestrictedSlugs(content) \ WrittenSlugs(xp)
               = {Visited(xp)[i].slug : i \in Skipped(xp)}

\* An export during which the crawler upserted an item has ended with a header
\* that counts more restricted rows than rows.
ExportHeaderTorn ==
    /\ xp.pc = "done" /\ xp.kind = "all"
    /\ xp.out[2].v.geo_restricted_count > xp.out[2].v.total_content

\* An export on a ContentDatabase has ended in the AttributeError: the file
\* holds the header and the opening of the array, nothing is returned.
ExportRaised ==
    /\ xp.pc = "raised" /\ xp.raised = "AttributeError"
    /\ Len(xp.out) = 3 /\ xp.out[3].tok = "["
    /\ ~ValidDocument(xp.out)

\* A restricted export of a catalog with a row that is not restricted has
\* ended: it wrote a record and skipped another.
GeoExportSkippedRecord ==
    /\ xp.pc = "done" /\ xp.kind = "geo"
    /\ Len(Written(xp)) >= 1
    /\ Cardinality(Skipped(xp)) >= 1
    /\ Len(content) > Len(Visited(xp))

\* A restricted export in which no record failed has ended with the count of
\* the header equal to the number of records written.
GeoExportAllWritten ==
    /\ xp.pc = "done" /\ xp.kind = "geo"
    /\ Skipped(xp) = {}
    /\ xp.out[2].v.count = 2 /\ Len(Written(xp)) = 2
    /\ Len(content) = 3

====
